---- MODULE Spec2Model ----
(***************************************************************************)
(* Windows Folder Designer: the ICO codec (container writer and reader,    *)
(* best-match selection, embedded raw-bitmap decode).                      *)
(*                                                                         *)
(* Byte buffers are sequences of numbers in 0..255; the byte at JavaScript *)
(* offset k is element k+1.  A Record<string, Buffer> keyed by a size is a *)
(* sequence of [size, data] records in key-enumeration order with pairwise *)
(* distinct sizes; the enumeration order is left arbitrary (an engine      *)
(* enumerates integer-like keys ascending, which is one of the orders the  *)
(* model covers).                                                          *)
(***************************************************************************)
EXTENDS Integers, Sequences, FiniteSets, TLC

VARIABLES
    imageBuffers,   \* the size-keyed record handed to a writer, in key order
    pngFiles,       \* server: the {size, PNG file} list, in push order (before the sort)
    icoBuffer,      \* the ICO bytes last written or uploaded
    writer,         \* "none" | "client" | "server" | "upload": where icoBuffer came from
    response,       \* outcome of the last export: "none" | "ico" | "400" | "500" | "rejected"
    parsed,         \* outcome of the last IcoParser.parse / parseIcoFile container parse
    pc,             \* "idle" | "handled" | "parsed": position in one request (requests are independent)
    images,         \* best-match: the descriptor list
    targetSize,     \* best-match: the target size
    clientMatch,    \* best-match: index chosen by ClientIcoProcessor.getBestMatch (0 = null, -1 = not run)
    serverMatch,    \* best-match: index chosen by IcoParser.getBestMatch (0 = null, -1 = not run)
    bmpBuffer,      \* raw-bitmap decode: the embedded bitmap bytes
    bmpWidth,       \* raw-bitmap decode: width from the directory entry
    bmpHeight,      \* raw-bitmap decode: height from the directory entry
    bmpResult,      \* raw-bitmap decode: outcome of parseBmpToRgba
    layers,         \* editor: the layers array (React state of IconDesigner)
    autoResize,     \* editor: the auto-resize flag
    sizeViewMode,   \* editor: the size the per-size controls apply to, 0 for "global"
    imagePosition,  \* editor: the position controls' value
    imageScale,     \* editor: the scale control's value, in percent
    edits,          \* editor: number of editing operations performed so far
    op,             \* editor: the last operation and its arguments
    canvas,         \* the last render: renderer, size and the draw calls it made, in order
    exported,       \* the last export: format, outcome and the frame rendered for each size
    imported,       \* the last ICO import: importer, outcome and the per-size images
    preview,        \* the preview canvas of one CanvasRenderer: context state and draw calls
    calls,          \* the render calls on that canvas that have not returned yet
    pending         \* the file reads of per-size uploads that have not completed yet

codecVars == <<imageBuffers, pngFiles, icoBuffer, writer, response, parsed, pc>>
matchVars == <<images, targetSize, clientMatch, serverMatch>>
codecData == <<imageBuffers, pngFiles, icoBuffer, writer, response, parsed>>
bmpVars == <<bmpBuffer, bmpWidth, bmpHeight, bmpResult>>
editorVars == <<layers, autoResize, sizeViewMode, imagePosition, imageScale, edits, op>>
outputVars == <<canvas, exported, imported>>
asyncVars == <<preview, calls, pending>>
vars == <<imageBuffers, pngFiles, icoBuffer, writer, response, parsed, pc,
          images, targetSize, clientMatch, serverMatch,
          bmpBuffer, bmpWidth, bmpHeight, bmpResult,
          layers, autoResize, sizeViewMode, imagePosition, imageScale, edits, op,
          canvas, exported, imported, preview, calls, pending>>

(***************************************************************************)
(* Bounds of the model.                                                    *)
(***************************************************************************)
\* largest number of editing operations before a render, an export or an import
MaxEdits == 3
\* largest number of entries in a size-keyed record given in arbitrary key order
MaxImages == 2
\* largest number of bytes a modelled PNG buffer carries after its 8-byte signature
MaxTail == 1
\* largest number of descriptors in a best-match image list
MaxList == 3
\* largest width and height of a modelled embedded raw bitmap
MaxDim == 2
\* number of directory entries an uploaded (arbitrary) file carries
FuzzEntries == 2

(***************************************************************************)
(* Program constants.                                                      *)
(***************************************************************************)
ICON_SIZES == <<16, 20, 24, 32, 40, 64, 256>>

CanonicalSizes == {ICON_SIZES[i] : i \in 1..Len(ICON_SIZES)}

\* bytes of the ICO header and of one directory entry
IcoHeaderBytes == 6
DirEntryBytes == 16
\* largest image count the reader accepts
MaxIcoCount == 255
\* the directory byte 0 stands for this width / height
FullDimension == 256
\* the reader's minimum payload length for a PNG classification
PngMinLength == 8
\* BITMAPINFOHEADER length skipped by the raw-bitmap decode
headerSize == 40

\* 89 50 4E 47 0D 0A 1A 0A
PngSignature == <<137, 80, 78, 71, 13, 10, 26, 10>>

(***************************************************************************)
(* Little-endian integer access (DataView / Buffer).                       *)
(***************************************************************************)
UInt8(v) == <<v % 256>>

UInt16LE(v) == <<v % 256, (v \div 256) % 256>>

UInt32LE(v) ==
    <<v % 256, (v \div 256) % 256, (v \div 65536) % 256, (v \div 16777216) % 256>>

readUInt8(buf, off) == buf[off + 1]

readUInt16LE(buf, off) == buf[off + 1] + 256 * buf[off + 2]

readUInt32LE(buf, off) ==
    buf[off + 1] + 256 * buf[off + 2] + 65536 * buf[off + 3] + 16777216 * buf[off + 4]

\* view.setUintN(off, v) / uint8View.set(bytes, off): overwrite bytes in place
SetBytes(buf, off, bytes) ==
    SubSeq(buf, 1, off) \o bytes \o SubSeq(buf, off + Len(bytes) + 1, Len(buf))

\* width / height byte of a directory entry: size === 256 ? 0 : size
DimensionByte(size) == IF size = 256 THEN 0 ELSE size

(***************************************************************************)
(* Size-keyed records.                                                     *)
(***************************************************************************)
\* Object.keys(imageBuffers).map(Number)
Keys(rec) == [k \in 1..Len(rec) |-> rec[k].size]

\* imageBuffers[size.toString()]
Lookup(rec, size) == rec[CHOOSE k \in 1..Len(rec) : rec[k].size = size].data

\* Array.prototype.sort((a, b) => a - b) on numbers
RECURSIVE InsertNumber(_, _)
InsertNumber(x, sorted) ==
    IF sorted = <<>> THEN <<x>>
    ELSE IF x < Head(sorted) THEN <<x>> \o sorted
    ELSE <<Head(sorted)>> \o InsertNumber(x, Tail(sorted))

RECURSIVE SortNumbers(_)
SortNumbers(seq) ==
    IF seq = <<>> THEN <<>>
    ELSE InsertNumber(seq[Len(seq)], SortNumbers(SubSeq(seq, 1, Len(seq) - 1)))

(***************************************************************************)
(* Client writer: ClientIconGenerator.createIcoFromPngs.                   *)
(***************************************************************************)
\* totalSize += imageBuffers[size.toString()].byteLength, over all sizes
RECURSIVE TotalByteLength(_, _)
TotalByteLength(rec, sizes) ==
    IF sizes = <<>> THEN 0
    ELSE Len(Lookup(rec, Head(sizes))) + TotalByteLength(rec, Tail(sizes))

\* mutant of ClientDirEntry: the height byte is left 0
ClientDirEntryHeightZero(size, byteLength, currentOffset) ==
    UInt8(DimensionByte(size)) \o UInt8(0) \o UInt8(0) \o UInt8(0)
        \o UInt16LE(1) \o UInt16LE(32) \o UInt32LE(byteLength) \o UInt32LE(currentOffset)

\* the 16-byte directory entry written at entryOffset
ClientDirEntry(size, byteLength, currentOffset) ==
    UInt8(DimensionByte(size)) \o UInt8(DimensionByte(size)) \o UInt8(0) \o UInt8(0)
        \o UInt16LE(1) \o UInt16LE(32) \o UInt32LE(byteLength) \o UInt32LE(currentOffset)

\* the loop "for (let i = 0; i < count; i++)": entry i, then its image data
RECURSIVE WriteEntries(_, _, _, _, _)
WriteEntries(buf, rec, sizes, i, currentOffset) ==
    IF i >= Len(sizes) THEN buf
    ELSE LET size == sizes[i + 1]
             imageBuffer == Lookup(rec, size)
             entryOffset == IcoHeaderBytes + i * DirEntryBytes
             withEntry == SetBytes(buf, entryOffset,
                                   ClientDirEntry(size, Len(imageBuffer), currentOffset))
             withData == SetBytes(withEntry, currentOffset, imageBuffer)
         IN  WriteEntries(withData, rec, sizes, i + 1, currentOffset + Len(imageBuffer))

\* mutant of ClientSortedSizes: the sort is left out
ClientUnsortedSizes(rec) == Keys(rec)

\* Object.keys(imageBuffers).map(Number).sort((a, b) => a - b)
ClientSortedSizes(rec) == SortNumbers(Keys(rec))

createIcoFromPngs(rec) ==
    LET sizes == ClientSortedSizes(rec)
        count == Len(sizes)
        hdrSize == IcoHeaderBytes + count * DirEntryBytes
        totalSize == hdrSize + TotalByteLength(rec, sizes)
        buffer == [k \in 1..totalSize |-> 0]
        withHeader == SetBytes(SetBytes(SetBytes(buffer, 0, UInt16LE(0)),
                                        2, UInt16LE(1)),
                               4, UInt16LE(count))
    IN  WriteEntries(withHeader, rec, sizes, 0, hdrSize)

(***************************************************************************)
(* Server writer: IconProcessor.processIcons / createICOFromPNGs.          *)
(***************************************************************************)
\* pngFiles.sort((a, b) => a.size - b.size), a stable sort
RECURSIVE InsertFile(_, _)
InsertFile(x, sorted) ==
    IF sorted = <<>> THEN <<x>>
    ELSE IF x.size < Head(sorted).size THEN <<x>> \o sorted
    ELSE <<Head(sorted)>> \o InsertFile(x, Tail(sorted))

RECURSIVE SortFiles(_)
SortFiles(files) ==
    IF files = <<>> THEN <<>>
    ELSE InsertFile(files[Len(files)], SortFiles(SubSeq(files, 1, Len(files) - 1)))

\* the 16-byte dirEntry buffer
ServerDirEntry(size, byteLength, imageOffset) ==
    UInt8(DimensionByte(size)) \o UInt8(DimensionByte(size)) \o UInt8(0) \o UInt8(0)
        \o UInt16LE(1) \o UInt16LE(32) \o UInt32LE(byteLength) \o UInt32LE(imageOffset)

\* the iconDir entries pushed by "for (const { size, path } of pngFiles)"
RECURSIVE ServerDirectory(_, _)
ServerDirectory(files, imageOffset) ==
    IF files = <<>> THEN <<>>
    ELSE ServerDirEntry(Head(files).size, Len(Head(files).data), imageOffset)
            \o ServerDirectory(Tail(files), imageOffset + Len(Head(files).data))

\* the iconImages pushed by the same loop
RECURSIVE ServerImages(_)
ServerImages(files) ==
    IF files = <<>> THEN <<>>
    ELSE Head(files).data \o ServerImages(Tail(files))

\* mutant of createICOFromPNGs: the first image offset leaves out the 6-byte header
createICOFromPNGsNoHeader(files) ==
    UInt16LE(0) \o UInt16LE(1) \o UInt16LE(Len(files))
        \o ServerDirectory(files, Len(files) * DirEntryBytes)
        \o ServerImages(files)

\* Buffer.concat([...iconDir, ...iconImages]); a file's data is what fs.readFile returns
createICOFromPNGs(files) ==
    UInt16LE(0) \o UInt16LE(1) \o UInt16LE(Len(files))
        \o ServerDirectory(files, IcoHeaderBytes + Len(files) * DirEntryBytes)
        \o ServerImages(files)

\* the entries of imageBuffers whose parseInt(key) is in ICON_SIZES, each re-encoded
\* by sharp to the PNG file png[size], in Object.entries order
RECURSIVE CollectPngFiles(_, _)
CollectPngFiles(rec, png) ==
    IF rec = <<>> THEN <<>>
    ELSE IF Head(rec).size \in CanonicalSizes
         THEN <<[size |-> Head(rec).size, data |-> png[Head(rec).size]]>>
                  \o CollectPngFiles(Tail(rec), png)
         ELSE CollectPngFiles(Tail(rec), png)

\* mutant of RouteRejectsEmpty: the route does not check for an empty record
RouteAcceptsEmpty(rec) == FALSE

\* if (Object.keys(imageBuffers).length === 0) return res.status(400)
RouteRejectsEmpty(rec) == Len(rec) = 0

\* pngFiles.sort(...) then createICOFromPNGs(pngFiles)
processIcons(files) == createICOFromPNGs(SortFiles(files))

(***************************************************************************)
(* Reader: IcoParser.parse (ClientIcoProcessor.parseIcoFile runs the same  *)
(* statements on the bytes of the uploaded file).                          *)
(***************************************************************************)
ParseError(message) == [status |-> "error", error |-> message, images |-> <<>>]

\* mutant of subarray: the second argument is taken as a length, not as the end
subarrayByLength(buf, start, end) ==
    SubSeq(buf, start + 1, IF start + end > Len(buf) THEN Len(buf) ELSE start + end)

\* icoBuffer.subarray(start, end) / arrayBuffer.slice(start, end)
subarray(buf, start, end) ==
    SubSeq(buf, start + 1, IF end > Len(buf) THEN Len(buf) ELSE end)

\* mutant of DimensionOf: the "|| 256" fallback is dropped
DimensionOfNoFallback(byte) == byte

\* icoBuffer.readUInt8(offset) || 256
DimensionOf(byte) == IF byte = 0 THEN FullDimension ELSE byte

\* mutant of FormatOf: all eight signature bytes are compared
FormatOfFullSignature(imageBuffer) ==
    IF /\ Len(imageBuffer) >= PngMinLength
       /\ SubSeq(imageBuffer, 1, 8) = PngSignature
    THEN "png" ELSE "bmp"

\* "Determine format by checking magic bytes"
FormatOf(imageBuffer) ==
    IF /\ Len(imageBuffer) >= PngMinLength
       /\ imageBuffer[1] = 137
       /\ imageBuffer[2] = 80
       /\ imageBuffer[3] = 78
       /\ imageBuffer[4] = 71
    THEN "png" ELSE "bmp"

\* mutant of HeaderInvalid: the type field is not checked
HeaderInvalidReservedOnly(reserved, type) == reserved # 0

\* if (reserved !== 0 || type !== 1)
HeaderInvalid(reserved, type) == reserved # 0 \/ type # 1

\* the loop "for (let i = 0; i < count; i++)" over the directory
RECURSIVE ParseEntries(_, _, _, _)
ParseEntries(buf, count, i, acc) ==
    IF i >= count THEN [status |-> "ok", error |-> "", images |-> acc]
    ELSE LET entryOffset == IcoHeaderBytes + i * DirEntryBytes IN
         IF entryOffset + DirEntryBytes > Len(buf)
         THEN ParseError("Invalid ICO file: truncated directory entry")
         ELSE LET width == DimensionOf(readUInt8(buf, entryOffset))
                  height == DimensionOf(readUInt8(buf, entryOffset + 1))
                  imageSize == readUInt32LE(buf, entryOffset + 8)
                  imageOffset == readUInt32LE(buf, entryOffset + 12)
              IN  IF imageOffset + imageSize > Len(buf)
                  THEN ParseError("Invalid ICO file: image data out of bounds")
                  ELSE LET imageBuffer == subarray(buf, imageOffset, imageOffset + imageSize)
                       IN  ParseEntries(buf, count, i + 1,
                               Append(acc, [width |-> width, height |-> height,
                                            buffer |-> imageBuffer,
                                            format |-> FormatOf(imageBuffer)]))

parse(buf) ==
    IF Len(buf) < IcoHeaderBytes THEN ParseError("Invalid ICO file: too small")
    ELSE LET reserved == readUInt16LE(buf, 0)
             type == readUInt16LE(buf, 2)
             count == readUInt16LE(buf, 4)
         IN  IF HeaderInvalid(reserved, type)
             THEN ParseError("Invalid ICO file: incorrect header")
             ELSE IF count = 0 \/ count > MaxIcoCount
             THEN ParseError("Invalid ICO file: invalid image count")
             ELSE ParseEntries(buf, count, 0, <<>>)

NotParsed == [status |-> "none", error |-> "", images |-> <<>>]

(***************************************************************************)
(* Layer model.  A size key ("16" .. "256") is held as its number; an      *)
(* optional per-size map is a function whose domain is the set of its      *)
(* keys, the empty function standing for undefined and for {} alike; a     *)
(* scale is held in percent (scale * 100).  An image URL is a record that  *)
(* says where it came from and whether the browser can decode it.  The     *)
(* colour overlay (useColor, color) changes how a drawn image is tinted,   *)
(* never whether or where it is drawn, and is left out.  The bundled       *)
(* folder assets always load.                                              *)
(***************************************************************************)
\* imageUrl: undefined
NoUrl == [kind |-> "none", size |-> 0, decodes |-> FALSE]

\* a per-size map that is undefined or has no key
NoMap == <<>>

\* map?.[size.toString()] is not undefined
HasKey(map, size) == size \in DOMAIN map

\* { ...map, [size]: value }
SetKey(map, size, value) ==
    [k \in (DOMAIN map) \cup {size} |-> IF k = size THEN value ELSE map[k]]

\* color: { type: "solid", value: "#..." }; parses says whether every colour string of
\* the colour is one the canvas accepts
SolidColor == [type |-> "solid", parses |-> TRUE]

createDefaultLayers ==
    <<[id |-> "back-folder", type |-> "back-folder", visible |-> TRUE, opacity |-> 100,
       position |-> [x |-> 128, y |-> 128], scale |-> 100, order |-> 0,
       imageUrl |-> NoUrl, sizeSpecificImages |-> NoMap, visibilityBySize |-> NoMap,
       positionBySize |-> NoMap, scaleBySize |-> NoMap,
       useColor |-> FALSE, color |-> SolidColor],
      [id |-> "front-folder", type |-> "front-folder", visible |-> TRUE, opacity |-> 100,
       position |-> [x |-> 128, y |-> 128], scale |-> 100, order |-> 1,
       imageUrl |-> NoUrl, sizeSpecificImages |-> NoMap, visibilityBySize |-> NoMap,
       positionBySize |-> NoMap, scaleBySize |-> NoMap,
       useColor |-> FALSE, color |-> SolidColor],
      [id |-> "user-image", type |-> "user-image", visible |-> TRUE, opacity |-> 100,
       position |-> [x |-> 128, y |-> 128], scale |-> 100, order |-> 2,
       imageUrl |-> NoUrl, sizeSpecificImages |-> NoMap, visibilityBySize |-> NoMap,
       positionBySize |-> NoMap, scaleBySize |-> NoMap,
       useColor |-> FALSE, color |-> SolidColor]>>

\* layers.find(l => l.id === layerId)
FindLayer(ls, layerId) == ls[CHOOSE i \in 1..Len(ls) : ls[i].id = layerId]

(***************************************************************************)
(* Renderers: ClientIconGenerator.renderLayersToCanvas (export) and        *)
(* CanvasRenderer.render (preview).  A render is the sequence of its draw  *)
(* calls; a folder layer is drawn over the whole frame, written here as    *)
(* the centre position and scale 100.                                      *)
(***************************************************************************)
\* mutant of SortByOrder: the layers are taken in array order
KeepArrayOrder(ls) == ls

\* [...layers].sort((a, b) => a.order - b.order), a stable sort
RECURSIVE InsertLayer(_, _)
InsertLayer(x, sorted) ==
    IF sorted = <<>> THEN <<x>>
    ELSE IF x.order < Head(sorted).order THEN <<x>> \o sorted
    ELSE <<Head(sorted)>> \o InsertLayer(x, Tail(sorted))

RECURSIVE SortByOrder(_)
SortByOrder(ls) ==
    IF ls = <<>> THEN <<>>
    ELSE InsertLayer(ls[Len(ls)], SortByOrder(SubSeq(ls, 1, Len(ls) - 1)))

\* mutant of sortCopy: layers.sort(...) without the copy
sortInPlace(ls) == [sorted |-> SortByOrder(ls), original |-> SortByOrder(ls)]

\* const sortedLayers = [...layers].sort(...): the sorted copy, and the array passed in
sortCopy(ls) == [sorted |-> SortByOrder(ls), original |-> ls]

\* availableSizes.reduce((prev, curr) => |curr - size| < |prev - size| ? curr : prev)
RECURSIVE ClosestSize(_, _, _)
ClosestSize(size, prev, k) ==
    IF k > Len(ICON_SIZES) THEN prev
    ELSE LET curr == ICON_SIZES[k]
             dc == IF curr >= size THEN curr - size ELSE size - curr
             dp == IF prev >= size THEN prev - size ELSE size - prev
         IN  ClosestSize(size, IF dc < dp THEN curr ELSE prev, k + 1)

\* getFolderAsset(type, size)
getFolderAsset(type, size) ==
    [kind |-> type, size |-> ClosestSize(size, ICON_SIZES[1], 2), decodes |-> TRUE]

\* mutant of PreviewIsVisible: the per-size override is not consulted
PreviewIsVisibleGlobalOnly(layer, size) == layer.visible

\* preview: layer.visibilityBySize?.[size.toString()] ?? layer.visible
PreviewIsVisible(layer, size) ==
    IF HasKey(layer.visibilityBySize, size) THEN layer.visibilityBySize[size]
    ELSE layer.visible

\* export: if (!layer.visible) continue
ExportIsVisible(layer, size) == layer.visible

\* mutant of currentPosition: the per-size override is not consulted
currentPositionGlobalOnly(layer, size) == layer.position

\* layer.positionBySize?.[size.toString()] || layer.position (an object is truthy)
currentPosition(layer, size) ==
    IF HasKey(layer.positionBySize, size) THEN layer.positionBySize[size]
    ELSE layer.position

\* layer.scaleBySize?.[size.toString()] || layer.scale (0 is falsy)
currentScale(layer, size) ==
    IF HasKey(layer.scaleBySize, size) /\ layer.scaleBySize[size] # 0
    THEN layer.scaleBySize[size]
    ELSE layer.scale

\* ctx.drawImage of a folder asset over the whole frame
DrawFolder(layer, size) ==
    <<[layer |-> layer.id, order |-> layer.order, alpha |-> layer.opacity,
       source |-> getFolderAsset(IF layer.type = "back-folder" THEN "back" ELSE "front",
                                 size),
       position |-> [x |-> 128, y |-> 128], scale |-> 100]>>

\* ctx.drawImage of a loaded user image at the resolved position and scale
DrawUserImage(layer, size, url) ==
    <<[layer |-> layer.id, order |-> layer.order, alpha |-> layer.opacity,
       source |-> url, position |-> currentPosition(layer, size),
       scale |-> currentScale(layer, size)]>>

\* export: ClientIconGenerator.renderUserImageLayer
ExportRenderUserImage(layer, size) ==
    LET sizeUrl == IF HasKey(layer.sizeSpecificImages, size)
                   THEN layer.sizeSpecificImages[size] ELSE NoUrl
        imageUrl == IF sizeUrl # NoUrl THEN sizeUrl ELSE layer.imageUrl
    IN  IF imageUrl = NoUrl THEN <<>>
        ELSE IF imageUrl.decodes THEN DrawUserImage(layer, size, imageUrl)
        ELSE <<>>

\* preview: CanvasRenderer.renderUserImage
PreviewRenderUserImage(layer, size) ==
    LET sizeSpecificImageUrl == IF HasKey(layer.sizeSpecificImages, size)
                                THEN layer.sizeSpecificImages[size] ELSE NoUrl
    IN  IF sizeSpecificImageUrl # NoUrl /\ sizeSpecificImageUrl.decodes
        THEN DrawUserImage(layer, size, sizeSpecificImageUrl)
        ELSE IF layer.imageUrl = NoUrl THEN <<>>
        ELSE IF layer.imageUrl.decodes THEN DrawUserImage(layer, size, layer.imageUrl)
        ELSE <<>>

\* export: the loop "for (const layer of sortedLayers)"
RECURSIVE ExportDrawLayers(_, _)
ExportDrawLayers(sortedLayers, size) ==
    IF sortedLayers = <<>> THEN <<>>
    ELSE LET layer == Head(sortedLayers)
             drawn == IF ~ExportIsVisible(layer, size) THEN <<>>
                      ELSE IF layer.type = "user-image"
                      THEN ExportRenderUserImage(layer, size)
                      ELSE DrawFolder(layer, size)
         IN  drawn \o ExportDrawLayers(Tail(sortedLayers), size)

\* preview: the loop "for (const layer of sortedLayers)"
RECURSIVE PreviewDrawLayers(_, _)
PreviewDrawLayers(sortedLayers, size) ==
    IF sortedLayers = <<>> THEN <<>>
    ELSE LET layer == Head(sortedLayers)
             drawn == IF ~PreviewIsVisible(layer, size) THEN <<>>
                      ELSE IF layer.type = "user-image"
                      THEN PreviewRenderUserImage(layer, size)
                      ELSE DrawFolder(layer, size)
         IN  drawn \o PreviewDrawLayers(Tail(sortedLayers), size)

\* ClientIconGenerator.renderLayersToCanvas: the draw calls, and the layers array after
renderLayersToCanvas(ls, size) ==
    [draws |-> ExportDrawLayers(sortCopy(ls).sorted, size),
     layers |-> sortCopy(ls).original]

\* CanvasRenderer.render: the draw calls, and the layers array after
render(ls, size) ==
    [draws |-> PreviewDrawLayers(sortCopy(ls).sorted, size),
     layers |-> sortCopy(ls).original]

NoCanvas == [renderer |-> "none", size |-> 0, draws |-> <<>>]

NoExport == [format |-> "none", status |-> "none", failed |-> 0, frames |-> <<>>,
             files |-> <<>>]

NoImport == [importer |-> "none", status |-> "none", error |-> "", sizeImages |-> <<>>,
             failed |-> {}, callback |-> FALSE,
             file |-> [icoName |-> FALSE, type |-> "", bytes |-> <<>>]]

NoOp == [name |-> "none", args |-> <<>>]

\* sizeViewMode "global"; a size otherwise
GlobalMode == 0

EditorInit ==
    /\ layers = createDefaultLayers
    /\ autoResize = TRUE
    /\ sizeViewMode = GlobalMode
    /\ imagePosition = [x |-> 128, y |-> 128]
    /\ imageScale = 100
    /\ edits = 0
    /\ op = NoOp

OutputInit ==
    /\ canvas = NoCanvas
    /\ exported = NoExport
    /\ imported = NoImport

\* globalAlpha of a fresh 2D context, in percent
DefaultAlpha == 100

\* a CanvasRenderer just constructed: the context in its default state, nothing painted,
\* no render stored, the 256px folder images of loadFolderImages still loading
NewRenderer ==
    [alpha |-> DefaultAlpha, stack |-> <<>>, painted |-> <<>>,
     lastLayers |-> <<>>, lastSize |-> 0, folderImages |-> "loading"]

AsyncInit ==
    /\ preview = NewRenderer
    /\ calls = <<>>
    /\ pending = <<>>

(***************************************************************************)
(* Inputs of the codec.                                                    *)
(***************************************************************************)
\* byte k after the signature of a PNG encoded for a size
TailByte(size, k) == (size + 41 * k) % 256

\* a PNG buffer the encoder (canvas.toBlob, sharp) returns for a size: the signature
\* and n further bytes
PngBuffer(size, n) == PngSignature \o [k \in 1..n |-> TailByte(size, k)]

\* sequences of pairwise distinct canonical sizes, of length lo..hi
DistinctSizeSeqs(lo, hi) ==
    {q \in UNION {[1..n -> CanonicalSizes] : n \in lo..hi} :
        \A a, b \in 1..Len(q) : a # b => q[a] # q[b]}

\* an image file uploaded in the multipart field size_<size>
UploadedImage(size) == PngBuffer(size, 1)

\* end of the directory of an uploaded file that carries FuzzEntries entries
FuzzDirEnd == IcoHeaderBytes + FuzzEntries * DirEntryBytes

\* the bytes an uploaded file carries after its directory: the PNG magic followed by
\* other bytes, then a whole PNG signature
FuzzPayload == <<137, 80, 78, 71, 0, 0, 0, 13>> \o PngSignature

\* <<reserved, type, count>> of an uploaded file
FuzzHeaders ==
    {<<0, 1, 0>>, <<0, 1, 1>>, <<0, 1, FuzzEntries>>, <<0, 1, 256>>, <<1, 1, 1>>,
     <<0, 2, FuzzEntries>>, <<0, 0, 1>>}

\* <<imageOffset, imageSize>> of a directory entry of an uploaded file: inside the
\* payload, on its boundary, and past the end
FuzzRanges ==
    {<<FuzzDirEnd, 8>>, <<FuzzDirEnd, 5>>, <<FuzzDirEnd, 16>>, <<FuzzDirEnd + 2, 8>>,
     <<FuzzDirEnd + 8, 8>>, <<FuzzDirEnd + 8, 9>>, <<FuzzDirEnd + 16, 0>>, <<0, 0>>}

\* a directory entry of an uploaded file: width byte, height byte, range
FuzzDirEntries ==
    {[dim |-> <<0, 0>>, range |-> r] : r \in FuzzRanges}
        \cup {[dim |-> <<16, 200>>, range |-> <<FuzzDirEnd + 8, 8>>]}

\* the 16 bytes of a directory entry of an uploaded file
FuzzEntryBytes(e) ==
    UInt8(e.dim[1]) \o UInt8(e.dim[2]) \o UInt8(0) \o UInt8(0) \o UInt16LE(1) \o UInt16LE(32)
        \o UInt32LE(e.range[2]) \o UInt32LE(e.range[1])

RECURSIVE FuzzDirectory(_)
FuzzDirectory(entries) ==
    IF entries = <<>> THEN <<>>
    ELSE FuzzEntryBytes(Head(entries)) \o FuzzDirectory(Tail(entries))

\* an uploaded file: header, directory and payload, cut to its first `length` bytes
FuzzBuffer(header, entries, length) ==
    SubSeq(UInt16LE(header[1]) \o UInt16LE(header[2]) \o UInt16LE(header[3])
               \o FuzzDirectory(entries) \o FuzzPayload,
           1, length)

\* lengths of an uploaded file: whole, one byte short, cut inside the directory, cut
\* inside the header
FuzzLengths ==
    {FuzzDirEnd + Len(FuzzPayload), FuzzDirEnd + Len(FuzzPayload) - 1, FuzzDirEnd - 1,
     IcoHeaderBytes - 1}

(***************************************************************************)
(* Operations of the codec.                                                *)
(***************************************************************************)
\* ClientIconGenerator.generateIcoFromLayers: one PNG per size of ICON_SIZES, in that
\* order, then createIcoFromPngs; a rejected canvasToBlob rejects the whole export
GenerateIcoFromLayers ==
    /\ pc = "idle"
    /\ pc' = "handled"
    /\ \/ \E n \in [1..Len(ICON_SIZES) -> 0..MaxTail] :
          LET rec == [k \in 1..Len(ICON_SIZES) |->
                         [size |-> ICON_SIZES[k], data |-> PngBuffer(ICON_SIZES[k], n[k])]]
          IN  /\ imageBuffers' = rec
              /\ pngFiles' = <<>>
              /\ icoBuffer' = createIcoFromPngs(rec)
              /\ writer' = "client"
              /\ response' = "ico"
              /\ parsed' = NotParsed
              /\ UNCHANGED <<matchVars, bmpVars, editorVars, outputVars, asyncVars>>
       \/ /\ response' = "rejected"
          /\ UNCHANGED <<imageBuffers, pngFiles, icoBuffer, writer, parsed, matchVars, bmpVars, editorVars, outputVars, asyncVars>>

\* ClientIconGenerator.createIcoFromPngs on a record whose keys were inserted in any order
CreateIcoFromPngs ==
    /\ pc = "idle"
    /\ pc' = "handled"
    /\ \E q \in DistinctSizeSeqs(1, MaxImages) :
      \E n \in [1..Len(q) -> 0..MaxTail] :
        LET rec == [k \in 1..Len(q) |-> [size |-> q[k], data |-> PngBuffer(q[k], n[k])]]
        IN  /\ imageBuffers' = rec
            /\ pngFiles' = <<>>
            /\ icoBuffer' = createIcoFromPngs(rec)
            /\ writer' = "client"
            /\ response' = "ico"
            /\ parsed' = NotParsed
            /\ UNCHANGED <<matchVars, bmpVars, editorVars, outputVars, asyncVars>>

\* POST /api/icons/generate-ico: no file -> 400; sharp throws -> 500; else the ICO
GenerateIcoRoute ==
    /\ pc = "idle"
    /\ pc' = "handled"
    /\ \E q \in DistinctSizeSeqs(0, MaxImages) :
        LET rec == [k \in 1..Len(q) |-> [size |-> q[k], data |-> UploadedImage(q[k])]]
        IN  IF RouteRejectsEmpty(rec)
            THEN /\ response' = "400"
                 /\ UNCHANGED <<imageBuffers, pngFiles, icoBuffer, writer, parsed,
                                matchVars, bmpVars, editorVars, outputVars, asyncVars>>
            ELSE \/ /\ response' = "500"
                    /\ UNCHANGED <<imageBuffers, pngFiles, icoBuffer, writer, parsed,
                                   matchVars, bmpVars, editorVars, outputVars, asyncVars>>
                 \/ \E n \in [1..Len(q) -> 0..MaxTail] :
                      LET png == [s \in {q[k] : k \in 1..Len(q)} |->
                                     PngBuffer(s, n[CHOOSE k \in 1..Len(q) : q[k] = s])]
                          files == CollectPngFiles(rec, png)
                      IN  /\ imageBuffers' = rec
                          /\ pngFiles' = files
                          /\ icoBuffer' = processIcons(files)
                          /\ writer' = "server"
                          /\ response' = "ico"
                          /\ parsed' = NotParsed
                          /\ UNCHANGED <<matchVars, bmpVars, editorVars, outputVars, asyncVars>>

\* the exported ICO file is uploaded again: POST /api/icons/parse-ico / parseIcoFile
ParseExported ==
    /\ pc = "handled"
    /\ writer \in {"client", "server"}
    /\ parsed' = parse(icoBuffer)
    /\ pc' = "parsed"
    /\ UNCHANGED <<imageBuffers, pngFiles, icoBuffer, writer, response, matchVars, bmpVars, editorVars, outputVars, asyncVars>>

\* any file is uploaded: POST /api/icons/parse-ico / parseIcoFile
ParseUploaded ==
    /\ pc = "idle"
    /\ pc' = "parsed"
    /\ \E header \in FuzzHeaders, entries \in [1..FuzzEntries -> FuzzDirEntries],
       length \in FuzzLengths :
        LET buf == FuzzBuffer(header, entries, length)
        IN  /\ icoBuffer' = buf
            /\ writer' = "upload"
            /\ parsed' = parse(buf)
            /\ imageBuffers' = <<>>
            /\ pngFiles' = <<>>
            /\ UNCHANGED <<response, matchVars, bmpVars, editorVars, outputVars, asyncVars>>

CodecInit ==
    /\ imageBuffers = <<>>
    /\ pngFiles = <<>>
    /\ icoBuffer = <<>>
    /\ writer = "none"
    /\ response = "none"
    /\ parsed = NotParsed
    /\ pc = "idle"

MatchIdle ==
    /\ images = <<>>
    /\ targetSize = 0
    /\ clientMatch = -1
    /\ serverMatch = -1

BmpIdle ==
    /\ bmpBuffer = <<>>
    /\ bmpWidth = 0
    /\ bmpHeight = 0
    /\ bmpResult = [status |-> "none", rgba |-> <<>>, reads |-> {}]

Init == CodecInit /\ MatchIdle /\ BmpIdle /\ EditorInit /\ OutputInit /\ AsyncInit

Next ==
    \/ GenerateIcoFromLayers
    \/ CreateIcoFromPngs
    \/ GenerateIcoRoute
    \/ ParseExported
    \/ ParseUploaded

Spec == Init /\ [][Next]_vars

(***************************************************************************)
(* Best-match selection.  A result is the position of the chosen image in  *)
(* the list (getBestMatch returns that element), 0 for null.               *)
(***************************************************************************)
Area(img) == img.width * img.height

\* Math.max(img.width, img.height)
MaxSide(img) == IF img.width > img.height THEN img.width ELSE img.height

\* images.find(img => img.width === targetSize && img.height === targetSize)
RECURSIVE FindExact(_, _, _)
FindExact(imgs, target, i) ==
    IF i > Len(imgs) THEN 0
    ELSE IF imgs[i].width = target /\ imgs[i].height = target THEN i
    ELSE FindExact(imgs, target, i + 1)

Indices(imgs) == [i \in 1..Len(imgs) |-> i]

\* mutant of ClientLargerImages: the longer side alone is compared
ClientLargerImagesByMaxSide(imgs, target) ==
    SelectSeq(Indices(imgs), LAMBDA i : MaxSide(imgs[i]) >= target)

\* client: images.filter(img => img.width >= targetSize && img.height >= targetSize)
ClientLargerImages(imgs, target) ==
    SelectSeq(Indices(imgs),
              LAMBDA i : imgs[i].width >= target /\ imgs[i].height >= target)

\* client: reduce((best, current) => area(current) < area(best) ? current : best)
RECURSIVE ReduceSmallestArea(_, _, _, _)
ReduceSmallestArea(imgs, idx, best, k) ==
    IF k > Len(idx) THEN best
    ELSE ReduceSmallestArea(imgs, idx,
             IF Area(imgs[idx[k]]) < Area(imgs[best]) THEN idx[k] ELSE best, k + 1)

\* client: reduce((best, current) => area(current) > area(best) ? current : best)
RECURSIVE ReduceLargestArea(_, _, _, _)
ReduceLargestArea(imgs, idx, best, k) ==
    IF k > Len(idx) THEN best
    ELSE ReduceLargestArea(imgs, idx,
             IF Area(imgs[idx[k]]) > Area(imgs[best]) THEN idx[k] ELSE best, k + 1)

\* ClientIcoProcessor.getBestMatch
ClientGetBestMatch(imgs, target) ==
    IF Len(imgs) = 0 THEN 0
    ELSE LET exactMatch == FindExact(imgs, target, 1)
             largerImages == ClientLargerImages(imgs, target)
         IN  IF exactMatch # 0 THEN exactMatch
             ELSE IF Len(largerImages) > 0
             THEN ReduceSmallestArea(imgs, largerImages, largerImages[1], 2)
             ELSE ReduceLargestArea(imgs, Indices(imgs), 1, 2)

\* server: images.filter(img => Math.max(img.width, img.height) >= targetSize)
ServerLargerSizes(imgs, target) ==
    SelectSeq(Indices(imgs), LAMBDA i : MaxSide(imgs[i]) >= target)

\* server: reduce((closest, current) => currentSize < closestSize ? current : closest)
RECURSIVE ReduceClosest(_, _, _, _)
ReduceClosest(imgs, idx, closest, k) ==
    IF k > Len(idx) THEN closest
    ELSE ReduceClosest(imgs, idx,
             IF MaxSide(imgs[idx[k]]) < MaxSide(imgs[closest]) THEN idx[k] ELSE closest,
             k + 1)

\* server: reduce((largest, current) => currentSize > largestSize ? current : largest)
RECURSIVE ReduceLargest(_, _, _, _)
ReduceLargest(imgs, idx, largest, k) ==
    IF k > Len(idx) THEN largest
    ELSE ReduceLargest(imgs, idx,
             IF MaxSide(imgs[idx[k]]) > MaxSide(imgs[largest]) THEN idx[k] ELSE largest,
             k + 1)

\* IcoParser.getBestMatch
ServerGetBestMatch(imgs, target) ==
    IF Len(imgs) = 0 THEN 0
    ELSE LET exactMatch == FindExact(imgs, target, 1)
             largerSizes == ServerLargerSizes(imgs, target)
         IN  IF exactMatch # 0 THEN exactMatch
             ELSE IF Len(largerSizes) > 0
             THEN ReduceClosest(imgs, largerSizes, largerSizes[1], 2)
             ELSE ReduceLargest(imgs, Indices(imgs), 1, 2)

\* widths and heights of the descriptors in a best-match list
MatchDims == {16, 32, 64}

MatchImages == {[width |-> w, height |-> h] : w \in MatchDims, h \in MatchDims}

\* the client import loop "for (const targetSize of targetSizes)": one iteration
ClientBestMatch ==
    /\ clientMatch = -1
    /\ \E t \in CanonicalSizes :
          /\ targetSize' = t
          /\ clientMatch' = ClientGetBestMatch(images, t)
    /\ UNCHANGED <<images, serverMatch, codecVars, bmpVars, editorVars, outputVars, asyncVars>>

\* the server import loop on the same list and target size
ServerBestMatch ==
    /\ clientMatch # -1
    /\ serverMatch = -1
    /\ serverMatch' = ServerGetBestMatch(images, targetSize)
    /\ UNCHANGED <<images, targetSize, clientMatch, codecVars, bmpVars, editorVars, outputVars, asyncVars>>

MatchInit ==
    /\ images \in UNION {[1..n -> MatchImages] : n \in 0..MaxList}
    /\ targetSize = 0
    /\ clientMatch = -1
    /\ serverMatch = -1

InitMatch == CodecInit /\ MatchInit /\ BmpIdle /\ EditorInit /\ OutputInit /\ AsyncInit

NextMatch == ClientBestMatch \/ ServerBestMatch

SpecMatch == InitMatch /\ [][NextMatch]_vars

(***************************************************************************)
(* Raw-bitmap decode: ClientIcoProcessor.parseBmpToRgba.                   *)
(***************************************************************************)
\* bmpBuffer[index]; a typed-array read past the end yields undefined, stored as 0
ByteAt(buf, index) == IF index >= 0 /\ index < Len(buf) THEN buf[index + 1] ELSE 0

\* mutant of SourceIndex: the rows are read top-down
SourceIndexTopDown(width, height, x, y) == headerSize + (y * width + x) * 4

\* sourceIndex of output pixel (x, y)
SourceIndex(width, height, x, y) == headerSize + ((height - 1 - y) * width + x) * 4

\* channel of the source group stored at output channel c: R <- +2, G <- +1, B <- +0, A <- +3
SourceChannel(c) == CASE c = 0 -> 2 [] c = 1 -> 1 [] c = 2 -> 0 [] OTHER -> 3

\* "Check if we have enough data"
BmpTooSmall(buf, width, height) == headerSize + width * height * 4 > Len(buf)

\* the two loops over y and x: output byte t and the source offset it is read from
BmpSourceOf(width, height, t) ==
    LET pixel == t \div 4
        x == pixel % width
        y == pixel \div width
    IN  SourceIndex(width, height, x, y) + SourceChannel(t % 4)

parseBmpToRgba(buf, width, height) ==
    IF BmpTooSmall(buf, width, height)
    THEN [status |-> "error", rgba |-> <<>>, reads |-> {}]
    ELSE [status |-> "ok",
          rgba |-> [k \in 1..(width * height * 4) |->
                       ByteAt(buf, BmpSourceOf(width, height, k - 1))],
          reads |-> {BmpSourceOf(width, height, k - 1) : k \in 1..(width * height * 4)}]

\* byte k (from 0) of an embedded bitmap
BmpByte(seed, k) == (seed + 7 * k) % 256

BmpSeeds == {0, 100}

\* the call parseBmpToRgba(bmpBuffer, width, height) of convertBmpToPng
ParseBmp ==
    /\ bmpResult.status = "none"
    /\ bmpResult' = parseBmpToRgba(bmpBuffer, bmpWidth, bmpHeight)
    /\ UNCHANGED <<bmpBuffer, bmpWidth, bmpHeight, codecVars, matchVars, editorVars, outputVars, asyncVars>>

BmpInit ==
    /\ bmpWidth \in 1..MaxDim
    /\ bmpHeight \in 1..MaxDim
    /\ \E seed \in BmpSeeds, n \in 0..(headerSize + MaxDim * MaxDim * 4 + 4) :
          bmpBuffer = [k \in 1..n |-> BmpByte(seed, k - 1)]
    /\ bmpResult = [status |-> "none", rgba |-> <<>>, reads |-> {}]

InitBmp == CodecInit /\ MatchIdle /\ BmpInit /\ EditorInit /\ OutputInit /\ AsyncInit

NextBmp == ParseBmp

SpecBmp == InitBmp /\ [][NextBmp]_vars

(***************************************************************************)
(* Editor operations (IconDesigner, LayerPanel) and the render and export  *)
(* calls made on the layers they produce.                                  *)
(***************************************************************************)
\* the sizes the per-size controls are switched to
ModeSizes == {32, 256}

\* the position-grid buttons pressed
PositionButtons == {0, 8}

\* the values entered in the scale control, in percent
ScaleInputs == {50, 250}

\* layer.id === layerId ? { ...layer, ...updates } : layer
ApplyUpdates(layer, updates) ==
    [f \in DOMAIN layer |-> IF f \in DOMAIN updates THEN updates[f] ELSE layer[f]]

\* mutant of updateLayer: the updates are applied to every layer
updateLayerAll(ls, layerId, updates) ==
    [i \in 1..Len(ls) |-> ApplyUpdates(ls[i], updates)]

\* updateLayer: prev.map(layer => layer.id === layerId ? { ...layer, ...updates } : layer)
updateLayer(ls, layerId, updates) ==
    [i \in 1..Len(ls) |-> IF ls[i].id = layerId THEN ApplyUpdates(ls[i], updates) ELSE ls[i]]

\* [...layers].sort((a, b) => b.order - a.order), a stable sort
RECURSIVE InsertLayerDesc(_, _)
InsertLayerDesc(x, sorted) ==
    IF sorted = <<>> THEN <<x>>
    ELSE IF x.order > Head(sorted).order THEN <<x>> \o sorted
    ELSE <<Head(sorted)>> \o InsertLayerDesc(x, Tail(sorted))

RECURSIVE SortByOrderDesc(_)
SortByOrderDesc(ls) ==
    IF ls = <<>> THEN <<>>
    ELSE InsertLayerDesc(ls[Len(ls)], SortByOrderDesc(SubSeq(ls, 1, Len(ls) - 1)))

\* mutant of reorderLayers: the dragged layer is moved to the target's place in the array
reorderLayersByMove(ls, dragIndex, hoverIndex) ==
    LET sortedLayers == SortByOrderDesc(ls)
        draggedLayer == sortedLayers[dragIndex + 1]
        rest == SelectSeq(sortedLayers, LAMBDA l : l.id # draggedLayer.id)
    IN  SubSeq(rest, 1, hoverIndex) \o <<draggedLayer>> \o SubSeq(rest, hoverIndex + 1, Len(rest))

\* reorderLayers(dragIndex, hoverIndex): the layers array after setLayers
reorderLayers(ls, dragIndex, hoverIndex) ==
    LET sortedLayers == SortByOrderDesc(ls)
    IN  IF dragIndex + 1 > Len(sortedLayers) \/ hoverIndex + 1 > Len(sortedLayers) THEN ls
        ELSE LET draggedLayer == sortedLayers[dragIndex + 1]
                 targetLayer == sortedLayers[hoverIndex + 1]
                 newDragOrder == targetLayer.order
                 newTargetOrder == draggedLayer.order
             IN  [i \in 1..Len(ls) |->
                     IF ls[i].id = draggedLayer.id
                     THEN ApplyUpdates(ls[i], [order |-> newDragOrder])
                     ELSE IF ls[i].id = targetLayer.id
                     THEN ApplyUpdates(ls[i], [order |-> newTargetOrder])
                     ELSE ls[i]]

\* positions[position] || positions[4]
GridPosition(index) ==
    IF index \in 0..8 THEN [x |-> 64 * (1 + (index % 3)), y |-> 64 * (1 + (index \div 3))]
    ELSE [x |-> 128, y |-> 128]

\* Math.max(10, Math.min(200, scale))
ClampScale(scale) == IF scale < 10 THEN 10 ELSE IF scale > 200 THEN 200 ELSE scale

\* an editing operation is taken while nothing is being rendered, exported or imported
CanEdit == pc = "idle" /\ edits < MaxEdits

\* the Select of LayerPanel / the position-mode Switch: setSizeViewMode
SetSizeViewMode ==
    /\ CanEdit
    /\ \E mode \in {GlobalMode} \cup ModeSizes :
          /\ mode # sizeViewMode
          /\ sizeViewMode' = mode
          /\ op' = [name |-> "setSizeViewMode", args |-> <<mode>>]
    /\ edits' = edits + 1
    /\ UNCHANGED <<layers, autoResize, imagePosition, imageScale, outputVars,
                   codecVars, matchVars, bmpVars, asyncVars>>

\* LayerItem.toggleVisibility
ToggleVisibility ==
    /\ CanEdit
    /\ \E i \in 1..Len(layers) :
          LET layer == layers[i]
              isVisible == IF sizeViewMode # GlobalMode /\ HasKey(layer.visibilityBySize,
                                                                  sizeViewMode)
                           THEN layer.visibilityBySize[sizeViewMode]
                           ELSE layer.visible
          IN  /\ layers' =
                    IF sizeViewMode # GlobalMode
                    THEN updateLayer(layers, layer.id,
                             [visibilityBySize |->
                                 SetKey(layer.visibilityBySize, sizeViewMode, ~isVisible)])
                    ELSE updateLayer(layers, layer.id, [visible |-> ~layer.visible])
              /\ op' = [name |-> "toggleVisibility", args |-> <<i>>]
    /\ edits' = edits + 1
    /\ UNCHANGED <<autoResize, sizeViewMode, imagePosition, imageScale, outputVars,
                   codecVars, matchVars, bmpVars, asyncVars>>

\* LayerPanel.handleDrop -> reorderLayers
ReorderLayers ==
    /\ CanEdit
    /\ \E draggedIndex \in 0..(Len(layers) - 1), hoverIndex \in 0..(Len(layers) - 1) :
          /\ draggedIndex # hoverIndex
          /\ layers' = reorderLayers(layers, draggedIndex, hoverIndex)
          /\ op' = [name |-> "reorderLayers", args |-> <<draggedIndex, hoverIndex>>]
    /\ edits' = edits + 1
    /\ UNCHANGED <<autoResize, sizeViewMode, imagePosition, imageScale, outputVars,
                   codecVars, matchVars, bmpVars, asyncVars>>

\* ImageUpload.handleFileSelect on an image file -> handleImageUpload
HandleImageUpload ==
    /\ CanEdit
    /\ \E decodes \in BOOLEAN :
          /\ layers' = updateLayer(layers, "user-image",
                          [imageUrl |-> [kind |-> "upload", size |-> 0, decodes |-> decodes],
                           visible |-> TRUE,
                           position |-> imagePosition,
                           scale |-> imageScale,
                           sizeSpecificImages |-> NoMap])
          /\ op' = [name |-> "handleImageUpload", args |-> <<decodes>>]
    /\ edits' = edits + 1
    /\ UNCHANGED <<autoResize, sizeViewMode, imagePosition, imageScale, outputVars,
                   codecVars, matchVars, bmpVars, asyncVars>>

\* ImageUpload.handleSizeSpecificFileSelect -> handleSizeSpecificImageUpload; the
\* per-size upload buttons are shown only while auto-resize is off
HandleSizeSpecificImageUpload ==
    /\ CanEdit
    /\ ~autoResize
    /\ \E size \in ModeSizes, decodes \in BOOLEAN :
          LET userImageLayer == FindLayer(layers, "user-image")
          IN  /\ layers' = updateLayer(layers, "user-image",
                              [sizeSpecificImages |->
                                   SetKey(userImageLayer.sizeSpecificImages, size,
                                          [kind |-> "upload", size |-> size,
                                           decodes |-> decodes]),
                               visible |-> TRUE,
                               imageUrl |-> userImageLayer.imageUrl])
              /\ op' = [name |-> "handleSizeSpecificImageUpload", args |-> <<size>>]
    /\ edits' = edits + 1
    /\ UNCHANGED <<autoResize, sizeViewMode, imagePosition, imageScale, outputVars,
                   codecVars, matchVars, bmpVars, asyncVars>>

\* the auto-resize Switch -> handleAutoResizeChange(!autoResize)
HandleAutoResizeChange ==
    /\ CanEdit
    /\ autoResize' = ~autoResize
    /\ layers' = IF ~autoResize /\ FindLayer(layers, "user-image").sizeSpecificImages # NoMap
                 THEN updateLayer(layers, "user-image", [sizeSpecificImages |-> NoMap])
                 ELSE layers
    /\ op' = [name |-> "handleAutoResizeChange", args |-> <<>>]
    /\ edits' = edits + 1
    /\ UNCHANGED <<sizeViewMode, imagePosition, imageScale, outputVars,
                   codecVars, matchVars, bmpVars, asyncVars>>

\* a position-grid button -> handlePositionChange(position)
HandlePositionChange ==
    /\ CanEdit
    /\ \E position \in PositionButtons :
          LET newPosition == GridPosition(position)
              userImageLayer == FindLayer(layers, "user-image")
          IN  /\ imagePosition' = newPosition
              /\ layers' =
                    IF sizeViewMode = GlobalMode
                    THEN updateLayer(layers, "user-image",
                             [position |-> newPosition, positionBySize |-> NoMap])
                    ELSE updateLayer(layers, "user-image",
                             [positionBySize |->
                                  SetKey(userImageLayer.positionBySize, sizeViewMode,
                                         newPosition)])
              /\ op' = [name |-> "handlePositionChange", args |-> <<position>>]
    /\ edits' = edits + 1
    /\ UNCHANGED <<autoResize, sizeViewMode, imageScale, outputVars,
                   codecVars, matchVars, bmpVars, asyncVars>>

\* the scale input or slider -> handleScaleChange(scale)
HandleScaleChange ==
    /\ CanEdit
    /\ \E scale \in ScaleInputs :
          LET clampedScale == ClampScale(scale)
              userImageLayer == FindLayer(layers, "user-image")
          IN  /\ imageScale' = clampedScale
              /\ layers' =
                    IF sizeViewMode = GlobalMode
                    THEN updateLayer(layers, "user-image",
                             [scale |-> clampedScale, scaleBySize |-> NoMap])
                    ELSE updateLayer(layers, "user-image",
                             [scaleBySize |->
                                  SetKey(userImageLayer.scaleBySize, sizeViewMode,
                                         clampedScale)])
              /\ op' = [name |-> "handleScaleChange", args |-> <<scale>>]
    /\ edits' = edits + 1
    /\ UNCHANGED <<autoResize, sizeViewMode, imagePosition, outputVars,
                   codecVars, matchVars, bmpVars, asyncVars>>

\* the PNG canvas.toBlob encodes for a rendered frame
CanvasPng(size, draws) == PngBuffer(size, IF Len(draws) > MaxTail THEN MaxTail ELSE Len(draws))

\* the frames of the first n sizes of ICON_SIZES, each rendered by renderLayersToCanvas
ExportFrames(ls, n) == [k \in 1..n |-> renderLayersToCanvas(ls, ICON_SIZES[k]).draws]

\* the layers array after renderLayersToCanvas was called for the first n sizes
RECURSIVE LayersAfterExport(_, _)
LayersAfterExport(ls, n) ==
    IF n = 0 THEN ls
    ELSE sortCopy(LayersAfterExport(ls, n - 1)).original

\* IconCanvas / SizePreview useEffect -> CanvasRenderer.render(layers, size)
PreviewRender ==
    /\ pc = "idle"
    /\ pc' = "rendered"
    /\ \E size \in CanonicalSizes :
        \E result \in {render(layers, size)} :
          /\ canvas' = [renderer |-> "preview", size |-> size, draws |-> result.draws]
          /\ layers' = result.layers
          /\ op' = [name |-> "render", args |-> <<size>>]
    /\ UNCHANGED <<autoResize, sizeViewMode, imagePosition, imageScale, edits,
                   exported, imported, codecData, matchVars, bmpVars, asyncVars>>

\* ClientIconGenerator.generateIcoFromLayers; failed is the position in ICON_SIZES of the
\* size whose canvasToBlob rejects, 0 when every size is encoded
generateIcoFromLayers(ls, failed) ==
    LET rendered == IF failed = 0 THEN Len(ICON_SIZES) ELSE failed
    IN  [status |-> IF failed = 0 THEN "ok" ELSE "rejected",
         frames |-> ExportFrames(ls, rendered),
         imageBuffers |-> [k \in 1..(IF failed = 0 THEN rendered ELSE rendered - 1) |->
                              [size |-> ICON_SIZES[k],
                               data |-> CanvasPng(ICON_SIZES[k],
                                            renderLayersToCanvas(ls, ICON_SIZES[k]).draws)]],
         layers |-> LayersAfterExport(ls, rendered)]

\* ClientIconGenerator.generatePngZipFromLayers; failed as above; files are the sizes of
\* the icon_<size>x<size>.png entries of the archive
generatePngZipFromLayers(ls, failed) ==
    LET rendered == IF failed = 0 THEN Len(ICON_SIZES) ELSE failed
    IN  [status |-> IF failed = 0 THEN "ok" ELSE "rejected",
         frames |-> ExportFrames(ls, rendered),
         files |-> IF failed = 0 THEN ICON_SIZES ELSE <<>>,
         layers |-> LayersAfterExport(ls, rendered)]

\* handleExport with exportFormat "ico"
HandleExportIco ==
    /\ pc = "idle"
    /\ pc' = "exported"
    /\ \E failed \in 0..Len(ICON_SIZES) :
          \E result \in {generateIcoFromLayers(layers, failed)} :
              /\ layers' = result.layers
              /\ op' = [name |-> "handleExport", args |-> <<failed>>]
              /\ IF result.status = "ok"
                 THEN /\ imageBuffers' = result.imageBuffers
                      /\ pngFiles' = <<>>
                      /\ icoBuffer' = createIcoFromPngs(result.imageBuffers)
                      /\ writer' = "client"
                      /\ response' = "ico"
                      /\ parsed' = NotParsed
                      /\ exported' = [format |-> "ico", status |-> "ok", failed |-> 0,
                                      frames |-> result.frames, files |-> ICON_SIZES]
                 ELSE /\ response' = "rejected"
                      /\ UNCHANGED <<imageBuffers, pngFiles, icoBuffer, writer, parsed>>
                      /\ exported' = [format |-> "ico", status |-> "rejected",
                                      failed |-> ICON_SIZES[failed],
                                      frames |-> result.frames, files |-> <<>>]
    /\ UNCHANGED <<autoResize, sizeViewMode, imagePosition, imageScale, edits,
                   canvas, imported, matchVars, bmpVars, asyncVars>>

\* handleExport with exportFormat "png-zip"
HandleExportPngZip ==
    /\ pc = "idle"
    /\ pc' = "exported"
    /\ \E failed \in 0..Len(ICON_SIZES) :
          \E result \in {generatePngZipFromLayers(layers, failed)} :
              /\ layers' = result.layers
              /\ op' = [name |-> "handleExport", args |-> <<failed>>]
              /\ exported' = [format |-> "png-zip", status |-> result.status,
                              failed |-> IF failed = 0 THEN 0 ELSE ICON_SIZES[failed],
                              frames |-> result.frames, files |-> result.files]
    /\ UNCHANGED <<autoResize, sizeViewMode, imagePosition, imageScale, edits,
                   canvas, imported, codecData, matchVars, bmpVars, asyncVars>>

InitEditor == CodecInit /\ MatchIdle /\ BmpIdle /\ EditorInit /\ OutputInit /\ AsyncInit

NextEditor ==
    \/ SetSizeViewMode
    \/ ToggleVisibility
    \/ ReorderLayers
    \/ HandleImageUpload
    \/ HandleSizeSpecificImageUpload
    \/ HandleAutoResizeChange
    \/ HandlePositionChange
    \/ HandleScaleChange
    \/ PreviewRender
    \/ HandleExportIco
    \/ HandleExportPngZip

SpecEditor == InitEditor /\ [][NextEditor]_vars

(***************************************************************************)
(* ICO import: ImageUpload.handleFileSelect -> ClientIcoProcessor          *)
(* .parseIcoFile -> handleIcoUpload, and the route POST /api/icons/        *)
(* parse-ico.  The source holds two versions of ClientIcoProcessor; the    *)
(* importer "first" is the one without validateIcoFile and without the     *)
(* fallback image, "second" the one with both.  Whether the browser (or    *)
(* sharp) can decode an embedded image is an input.  createFallbackImage   *)
(* only fills a fresh canvas and does not fail.                            *)
(***************************************************************************)
\* <<reserved, type, count>> of the files chosen for import
ImportHeaders == {<<0, 1, FuzzEntries>>, <<0, 1, 1>>, <<1, 1, 1>>, <<0, 1, 0>>}

\* directory entries of the files chosen for import: a 256x256 PNG, a 16x200 PNG, a
\* 256x256 raw bitmap too short for its size, an entry out of bounds
ImportEntries ==
    {[dim |-> <<0, 0>>, range |-> <<FuzzDirEnd, 8>>],
     [dim |-> <<16, 200>>, range |-> <<FuzzDirEnd + 8, 8>>],
     [dim |-> <<0, 0>>, range |-> <<FuzzDirEnd, 5>>],
     [dim |-> <<0, 0>>, range |-> <<FuzzDirEnd + 8, 9>>]}

\* lengths of the files chosen for import: whole, cut inside the directory, cut inside
\* the header
ImportLengths == {FuzzDirEnd + Len(FuzzPayload), FuzzDirEnd - 1, IcoHeaderBytes - 1}

\* a File: whether its name ends in .ico, its MIME type, its bytes
ImportFiles ==
    {[icoName |-> name, type |-> type, bytes |-> FuzzBuffer(h, e, n)] :
        name \in BOOLEAN, type \in {"image/x-icon", "application/octet-stream"},
        h \in ImportHeaders, e \in [1..FuzzEntries -> ImportEntries], n \in ImportLengths}

\* handleFileSelect: isIcoFile
isIcoFile(file) == file.icoName \/ file.type = "application/octet-stream"

\* ClientIcoProcessor.validateIcoFile
validateIcoFile(file) == file.icoName /\ Len(file.bytes) >= 22

\* the conversion of the chosen image for one target size throws
ConversionFails(importer, image, canDecode) ==
    CASE importer = "second" ->
            IF FormatOf(image.buffer) = "png" THEN ~canDecode
            ELSE BmpTooSmall(image.buffer, image.width, image.height)
      [] importer = "first" ->
            IF image.format = "png" THEN FALSE ELSE ~canDecode
      [] OTHER ->
            IF image.format = "bmp" THEN ~canDecode ELSE FALSE

\* the data URL stored for a target size when the conversion returns
ConvertedUrl(importer, target, canDecode) ==
    [kind |-> "ico", size |-> target,
     decodes |-> IF importer = "second" THEN TRUE ELSE canDecode]

\* createFallbackImage(target)
createFallbackImage(target) == [kind |-> "fallback", size |-> target, decodes |-> TRUE]

\* mutant of OnConversionFailure: the failure is not caught and the sizes already
\* converted are lost
OnConversionFailureLoseAll(importer, sizeImages, target) == <<>>

\* the catch block of the loop over targets
OnConversionFailure(importer, sizeImages, target) ==
    IF importer = "second"
    THEN Append(sizeImages, [size |-> target, url |-> createFallbackImage(target)])
    ELSE sizeImages

\* getBestMatch of the importer
BestMatchOf(importer, imgs, target) ==
    IF importer = "server" THEN ServerGetBestMatch(imgs, target)
    ELSE ClientGetBestMatch(imgs, target)

\* the loop "for (const targetSize of targetSizes)" from position k of targetSizes on
RECURSIVE ConvertSizes(_, _, _, _, _)
ConvertSizes(importer, imgs, decodable, k, sizeImages) ==
    IF k > Len(ICON_SIZES) THEN sizeImages
    ELSE LET target == ICON_SIZES[k]
             bestMatch == BestMatchOf(importer, imgs, target)
         IN  IF bestMatch = 0
             THEN ConvertSizes(importer, imgs, decodable, k + 1, sizeImages)
             ELSE IF ConversionFails(importer, imgs[bestMatch], decodable[bestMatch])
             THEN ConvertSizes(importer, imgs, decodable, k + 1,
                               OnConversionFailure(importer, sizeImages, target))
             ELSE ConvertSizes(importer, imgs, decodable, k + 1,
                      Append(sizeImages,
                             [size |-> target,
                              url |-> ConvertedUrl(importer, target,
                                                   decodable[bestMatch])]))

\* the target sizes whose conversion throws
FailedSizes(importer, imgs, decodable) ==
    {t \in CanonicalSizes :
        /\ BestMatchOf(importer, imgs, t) # 0
        /\ ConversionFails(importer, imgs[BestMatchOf(importer, imgs, t)],
                           decodable[BestMatchOf(importer, imgs, t)])}

\* ClientIcoProcessor.parseIcoFile (both versions) and the body of the parse-ico route
parseIcoFile(importer, file, decodable) ==
    IF importer = "second" /\ ~validateIcoFile(file)
    THEN [status |-> "error", error |-> "Invalid ICO file: file format or size is invalid",
          sizeImages |-> <<>>, failed |-> {}]
    ELSE LET container == parse(file.bytes)
         IN  IF container.status = "error"
             THEN [status |-> "error", error |-> container.error, sizeImages |-> <<>>,
                   failed |-> {}]
             ELSE [status |-> "ok", error |-> "",
                   sizeImages |-> ConvertSizes(importer, container.images, decodable, 1, <<>>),
                   failed |-> FailedSizes(importer, container.images, decodable)]

\* a Record<string, string> of per-size URLs as the per-size map of a layer
AsSizeMap(sizeImages) ==
    [s \in {sizeImages[k].size : k \in 1..Len(sizeImages)} |->
        sizeImages[CHOOSE k \in 1..Len(sizeImages) : sizeImages[k].size = s].url]

\* handleIcoUpload(sizeImages): the layers array after its three updateLayer calls
handleIcoUpload(ls, sizeImages, position, scale) ==
    updateLayer(
        updateLayer(
            updateLayer(ls, "back-folder", [visible |-> TRUE, opacity |-> 100]),
            "front-folder", [visible |-> TRUE, opacity |-> 100]),
        "user-image",
        [sizeSpecificImages |-> AsSizeMap(sizeImages), visible |-> TRUE,
         position |-> position, scale |-> scale, imageUrl |-> NoUrl])

\* mutant of IcoUploadDelivered: onIcoUpload is called whatever parseIcoFile did
IcoUploadDeliveredAlways(result) == TRUE

\* handleFileSelect: onIcoUpload(sizeImages) runs when "await parseIcoFile(file)" returned
IcoUploadDelivered(result) == result.status = "ok"

\* the numbers of the images of a parsed container, each with whether it can be decoded
DecodableChoices(bytes) ==
    [1..Len(parse(bytes).images) -> BOOLEAN]

\* ImageUpload.handleFileSelect on a file it takes for an ICO file
HandleIcoFileSelect ==
    /\ pc = "idle"
    /\ pc' = "imported"
    /\ \E file \in ImportFiles, importer \in {"first", "second"} :
        \E decodable \in DecodableChoices(file.bytes) :
          \E result \in {parseIcoFile(importer, file, decodable)} :
            /\ isIcoFile(file)
            /\ imported' = [importer |-> importer, status |-> result.status,
                            error |-> result.error,
                            sizeImages |-> IF IcoUploadDelivered(result)
                                           THEN result.sizeImages ELSE <<>>,
                            failed |-> result.failed,
                            callback |-> IcoUploadDelivered(result), file |-> file]
            /\ IF IcoUploadDelivered(result)
               THEN /\ autoResize' = FALSE
                    /\ layers' = handleIcoUpload(layers, result.sizeImages, imagePosition,
                                                 imageScale)
               ELSE UNCHANGED <<autoResize, layers>>
            /\ op' = [name |-> "handleFileSelect", args |-> <<importer>>]
    /\ UNCHANGED <<sizeViewMode, imagePosition, imageScale, edits, canvas, exported,
                   codecData, matchVars, bmpVars, asyncVars>>

\* POST /api/icons/parse-ico with a file: 500 when the parse throws, else the images
ParseIcoRoute ==
    /\ pc = "idle"
    /\ pc' = "imported"
    /\ \E file \in ImportFiles :
        \E decodable \in DecodableChoices(file.bytes) :
          \E result \in {parseIcoFile("server", file, decodable)} :
            /\ file.icoName
            /\ file.type = "image/x-icon"
            /\ imported' = [importer |-> "server", status |-> result.status,
                            error |-> result.error, sizeImages |-> result.sizeImages,
                            failed |-> result.failed, callback |-> FALSE, file |-> file]
            /\ op' = [name |-> "parse-ico", args |-> <<>>]
    /\ UNCHANGED <<layers, autoResize, sizeViewMode, imagePosition, imageScale, edits, canvas, exported, codecData, matchVars, bmpVars, asyncVars>>

InitImport == CodecInit /\ MatchIdle /\ BmpIdle /\ EditorInit /\ OutputInit /\ AsyncInit

NextImport ==
    \/ HandleAutoResizeChange
    \/ HandlePositionChange
    \/ HandleIcoFileSelect
    \/ ParseIcoRoute

SpecImport == InitImport /\ [][NextImport]_vars

(***************************************************************************)
(* Reorders made by handlers of one render.  reorderLayers reads the       *)
(* layers of the render that created it ([...layers].sort) and writes      *)
(* through setLayers(prev => ...), which runs on the state as it is when   *)
(* the update is applied.                                                  *)
(***************************************************************************)
\* reorderLayers(dragIndex, hoverIndex) of the render that saw rendered, applied to prev
reorderLayersFrom(rendered, prev, dragIndex, hoverIndex) ==
    LET sortedLayers == SortByOrderDesc(rendered)
    IN  IF dragIndex + 1 > Len(sortedLayers) \/ hoverIndex + 1 > Len(sortedLayers)
        THEN prev
        ELSE LET draggedLayer == sortedLayers[dragIndex + 1]
                 targetLayer == sortedLayers[hoverIndex + 1]
                 newDragOrder == targetLayer.order
                 newTargetOrder == draggedLayer.order
             IN  [i \in 1..Len(prev) |->
                     IF prev[i].id = draggedLayer.id
                     THEN ApplyUpdates(prev[i], [order |-> newDragOrder])
                     ELSE IF prev[i].id = targetLayer.id
                     THEN ApplyUpdates(prev[i], [order |-> newTargetOrder])
                     ELSE prev[i]]

\* two calls of the reorderLayers of one render: both read the same rendered list, the
\* second setLayers update runs on the result of the first
ReorderLayersTwice ==
    /\ CanEdit
    /\ \E d1 \in 0..(Len(layers) - 1), h1 \in 0..(Len(layers) - 1),
          d2 \in 0..(Len(layers) - 1), h2 \in 0..(Len(layers) - 1) :
          /\ d1 # h1
          /\ d2 # h2
          /\ layers' = reorderLayersFrom(layers, reorderLayersFrom(layers, layers, d1, h1),
                                         d2, h2)
          /\ op' = [name |-> "reorderLayers twice", args |-> <<d1, h1, d2, h2>>]
    /\ edits' = edits + 1
    /\ UNCHANGED <<autoResize, sizeViewMode, imagePosition, imageScale, outputVars,
                   codecVars, matchVars, bmpVars, asyncVars>>

InitOrder == CodecInit /\ MatchIdle /\ BmpIdle /\ EditorInit /\ OutputInit /\ AsyncInit

NextOrder ==
    \/ ReorderLayers
    \/ ReorderLayersTwice

SpecOrder == InitOrder /\ [][NextOrder]_vars

(***************************************************************************)
(* The editing session: every handler of IconDesigner and LayerPanel that  *)
(* writes the layers, taken one after another.                             *)
(***************************************************************************)
\* the values entered in the X and Y position inputs
GranularInputs == {100, 300}

\* the values the opacity slider (min 0, max 100) is moved to
OpacityInputs == {40}

\* Math.max(0, Math.min(256, value))
ClampPosition(value) == IF value < 0 THEN 0 ELSE IF value > 256 THEN 256 ELSE value

\* { ...imagePosition, [axis]: clampedValue }
WithAxis(position, axis, value) ==
    IF axis = "x" THEN [x |-> value, y |-> position.y] ELSE [x |-> position.x, y |-> value]

\* the images an import of an ICO file with every target size delivers
IcoSizeImages ==
    [k \in 1..Len(ICON_SIZES) |->
        [size |-> ICON_SIZES[k], url |-> ConvertedUrl("second", ICON_SIZES[k], TRUE)]]

\* the position-mode Switch: setSizeViewMode(checked ? "global" : "256")
TogglePositionMode ==
    /\ pc = "idle"
    /\ sizeViewMode' = IF sizeViewMode = GlobalMode THEN 256 ELSE GlobalMode
    /\ op' = [name |-> "switch-position-mode", args |-> <<>>]
    /\ UNCHANGED <<layers, autoResize, imagePosition, imageScale, edits, outputVars,
                   codecVars, matchVars, bmpVars, asyncVars>>

\* the X or Y input or slider -> handleGranularPositionChange(axis, value)
HandleGranularPositionChange ==
    /\ CanEdit
    /\ \E axis \in {"x", "y"}, value \in GranularInputs :
          LET clampedValue == ClampPosition(value)
              newPosition == WithAxis(imagePosition, axis, clampedValue)
              userImageLayer == FindLayer(layers, "user-image")
          IN  /\ imagePosition' = newPosition
              /\ layers' =
                    IF sizeViewMode = GlobalMode
                    THEN updateLayer(layers, "user-image",
                             [position |-> newPosition, positionBySize |-> NoMap])
                    ELSE updateLayer(layers, "user-image",
                             [positionBySize |->
                                  SetKey(userImageLayer.positionBySize, sizeViewMode,
                                         newPosition)])
              /\ op' = [name |-> "handleGranularPositionChange", args |-> <<axis, value>>]
    /\ edits' = edits + 1
    /\ UNCHANGED <<autoResize, sizeViewMode, imageScale, outputVars,
                   codecVars, matchVars, bmpVars, asyncVars>>

\* the opacity slider of a layer -> onUpdate({ opacity: value })
HandleOpacityChange ==
    /\ CanEdit
    /\ \E i \in 1..Len(layers), value \in OpacityInputs :
          /\ layers' = updateLayer(layers, layers[i].id, [opacity |-> value])
          /\ op' = [name |-> "opacity", args |-> <<i, value>>]
    /\ edits' = edits + 1
    /\ UNCHANGED <<autoResize, sizeViewMode, imagePosition, imageScale, outputVars,
                   codecVars, matchVars, bmpVars, asyncVars>>

\* handleIcoUpload(sizeImages), called by handleFileSelect after parseIcoFile returned
HandleIcoUpload ==
    /\ CanEdit
    /\ autoResize' = FALSE
    /\ layers' = handleIcoUpload(layers, IcoSizeImages, imagePosition, imageScale)
    /\ op' = [name |-> "handleIcoUpload", args |-> <<>>]
    /\ edits' = edits + 1
    /\ UNCHANGED <<sizeViewMode, imagePosition, imageScale, outputVars,
                   codecVars, matchVars, bmpVars, asyncVars>>

InitSession == CodecInit /\ MatchIdle /\ BmpIdle /\ EditorInit /\ OutputInit /\ AsyncInit

NextSession ==
    \/ SetSizeViewMode
    \/ TogglePositionMode
    \/ ToggleVisibility
    \/ ReorderLayers
    \/ HandleImageUpload
    \/ HandleSizeSpecificImageUpload
    \/ HandleAutoResizeChange
    \/ HandlePositionChange
    \/ HandleScaleChange
    \/ HandleGranularPositionChange
    \/ HandleOpacityChange
    \/ HandleIcoUpload

SpecSession == InitSession /\ [][NextSession]_vars

(***************************************************************************)
(* Uploads in flight.  handleSizeSpecificFileSelect and handleFileSelect   *)
(* await the file read (fileToDataUrl, parseIcoFile) and then call the     *)
(* upload callback of the render in which the file was chosen; other       *)
(* handlers run in between.                                                *)
(***************************************************************************)
\* largest number of file reads in flight
MaxPending == 2

\* handleSizeSpecificImageUpload(size, imageUrl) of the render that saw rendered, applied
\* to prev
handleSizeSpecificImageUpload(rendered, prev, size, imageUrl) ==
    LET userImageLayer == FindLayer(rendered, "user-image")
    IN  updateLayer(prev, "user-image",
            [sizeSpecificImages |-> SetKey(userImageLayer.sizeSpecificImages, size, imageUrl),
             visible |-> TRUE,
             imageUrl |-> userImageLayer.imageUrl])

\* pending without its k-th element
WithoutRead(k) == SubSeq(pending, 1, k - 1) \o SubSeq(pending, k + 1, Len(pending))

\* handleSizeSpecificFileSelect up to "await fileToDataUrl(file)"; the per-size upload
\* buttons are shown only while auto-resize is off
StartSizeSpecificUpload ==
    /\ CanEdit
    /\ ~autoResize
    /\ Len(pending) < MaxPending
    /\ \E size \in ModeSizes :
          /\ pending' = Append(pending,
                            [kind |-> "size", size |-> size, rendered |-> layers,
                             position |-> imagePosition, scale |-> imageScale])
          /\ op' = [name |-> "handleSizeSpecificFileSelect", args |-> <<size>>]
    /\ edits' = edits + 1
    /\ UNCHANGED <<layers, autoResize, sizeViewMode, imagePosition, imageScale, outputVars,
                   codecVars, matchVars, bmpVars, preview, calls>>

\* handleFileSelect on an ICO file up to "await ClientIcoProcessor.parseIcoFile(file)"
StartIcoUpload ==
    /\ CanEdit
    /\ Len(pending) < MaxPending
    /\ pending' = Append(pending,
                      [kind |-> "ico", size |-> 0, rendered |-> layers,
                       position |-> imagePosition, scale |-> imageScale])
    /\ op' = [name |-> "handleFileSelect", args |-> <<>>]
    /\ edits' = edits + 1
    /\ UNCHANGED <<layers, autoResize, sizeViewMode, imagePosition, imageScale, outputVars,
                   codecVars, matchVars, bmpVars, preview, calls>>

\* a file read completes: onSizeSpecificImageUpload(size, dataUrl) or
\* onIcoUpload(sizeImages) of the render in which the file was chosen
CompleteUpload ==
    /\ pc = "idle"
    /\ \E k \in 1..Len(pending) :
          LET read == pending[k]
          IN  /\ pending' = WithoutRead(k)
              /\ IF read.kind = "size"
                 THEN /\ layers' = handleSizeSpecificImageUpload(read.rendered, layers,
                                       read.size,
                                       [kind |-> "upload", size |-> read.size,
                                        decodes |-> TRUE])
                      /\ UNCHANGED autoResize
                 ELSE /\ layers' = handleIcoUpload(layers, IcoSizeImages, read.position,
                                                   read.scale)
                      /\ autoResize' = FALSE
              /\ op' = [name |-> "upload completed", args |-> <<read.kind, read.size>>]
    /\ UNCHANGED <<sizeViewMode, imagePosition, imageScale, edits, outputVars,
                   codecVars, matchVars, bmpVars, preview, calls>>

InitUpload == CodecInit /\ MatchIdle /\ BmpIdle /\ EditorInit /\ OutputInit /\ AsyncInit

NextUpload ==
    \/ HandleAutoResizeChange
    \/ HandleImageUpload
    \/ StartSizeSpecificUpload
    \/ StartIcoUpload
    \/ CompleteUpload

SpecUpload == InitUpload /\ [][NextUpload]_vars

(***************************************************************************)
(* Painting.  The renderers once more, now with the state of the 2D        *)
(* context (globalAlpha and the stack of ctx.save()), the colour overlay   *)
(* and the rectangle of every draw.  Each paint records the context state  *)
(* the layer found before its ctx.save().  Coordinates are exact: they are *)
(* counted in units of 1/6400 pixel, which holds size/256 and scale/100.   *)
(* The render of the mount effect leaves nothing behind that the next      *)
(* effect does not overwrite, so the first effect taken here may follow    *)
(* edits.                                                                  *)
(***************************************************************************)
\* units per pixel of the coordinates of a draw
Unit == 6400

\* the colours typed in the gradient fields of the ColorPicker: a linear gradient with a
\* stop the canvas cannot parse
ColorInputs == {[type |-> "linear", parses |-> FALSE]}

\* the context of a canvas just created or just resized
FreshContext == [alpha |-> DefaultAlpha, stack |-> <<>>]

\* ctx.save()
CtxSave(c) == [c EXCEPT !.stack = Append(@, c.alpha)]

\* ctx.restore(): nothing when the stack is empty
CtxRestore(c) ==
    IF c.stack = <<>> THEN c
    ELSE [c EXCEPT !.alpha = c.stack[Len(c.stack)],
                   !.stack = SubSeq(@, 1, Len(@) - 1)]

\* ctx.globalAlpha = value
CtxAlpha(c, value) == [c EXCEPT !.alpha = value]

\* gradient.addColorStop throws for a colour string it cannot parse: applyColorToImage
\* and renderFolderFallback raise for a layer with useColor and such a gradient
ColorThrows(layer) ==
    layer.useColor /\ layer.color.type # "solid" /\ ~layer.color.parses

\* mutant of DrawRect: the position is taken as the top-left corner
DrawRectFromCorner(size, position, scale) ==
    [x |-> position.x * size * (Unit \div 256),
     y |-> position.y * size * (Unit \div 256),
     side |-> size * scale * (Unit \div 100)]

\* scaledSize = size * currentScale; x = currentPosition.x * (size / 256) - scaledSize / 2
DrawRect(size, position, scale) ==
    [x |-> position.x * size * (Unit \div 256) - size * scale * (Unit \div 200),
     y |-> position.y * size * (Unit \div 256) - size * scale * (Unit \div 200),
     side |-> size * scale * (Unit \div 100)]

\* one draw on the main canvas by a layer: c is the context at the draw, before the
\* context the layer found; shown is the side of the square that reaches the canvas
\* (applyColorToImage draws through a temporary canvas of integer width)
Paint(layer, size, c, before, source, rect) ==
    [layer |-> layer.id, order |-> layer.order, size |-> size,
     before |-> [alpha |-> before.alpha, depth |-> Len(before.stack)],
     alpha |-> c.alpha, opacity |-> layer.opacity, source |-> source,
     x |-> rect.x, y |-> rect.y, side |-> rect.side,
     shown |-> IF layer.useColor THEN (rect.side \div Unit) * Unit ELSE rect.side]

\* the rectangle of a folder asset: drawImage(img, 0, 0, size, size)
FolderRect(size) == [x |-> 0, y |-> 0, side |-> size * Unit]

\* the folder asset of a layer
FolderSource(layer, size) ==
    getFolderAsset(IF layer.type = "back-folder" THEN "back" ELSE "front", size)

\* export: renderFolderLayer; its catch calls renderFolderFallback, which raises again
ExportPaintFolder(layer, size, c, before) ==
    IF ColorThrows(layer)
    THEN [ctx |-> c, paints |-> <<>>, raised |-> TRUE]
    ELSE [ctx |-> c, raised |-> FALSE,
          paints |-> <<Paint(layer, size, c, before, FolderSource(layer, size),
                             FolderRect(size))>>]

\* export: renderUserImageLayer; the try block holds the load and the draw
ExportPaintUserImage(layer, size, c, before) ==
    LET sizeUrl == IF HasKey(layer.sizeSpecificImages, size)
                   THEN layer.sizeSpecificImages[size] ELSE NoUrl
        imageUrl == IF sizeUrl # NoUrl THEN sizeUrl ELSE layer.imageUrl
    IN  IF imageUrl = NoUrl \/ ~imageUrl.decodes \/ ColorThrows(layer)
        THEN [ctx |-> c, paints |-> <<>>, raised |-> FALSE]
        ELSE [ctx |-> c, raised |-> FALSE,
              paints |-> <<Paint(layer, size, c, before, imageUrl,
                                 DrawRect(size, currentPosition(layer, size),
                                          currentScale(layer, size)))>>]

\* export: the loop of renderLayersToCanvas: save, globalAlpha, try/catch, restore
RECURSIVE ExportPaintLayers(_, _, _, _)
ExportPaintLayers(sortedLayers, size, c, paints) ==
    IF sortedLayers = <<>> THEN [ctx |-> c, paints |-> paints, status |-> "ok"]
    ELSE LET layer == Head(sortedLayers)
         IN  IF ~ExportIsVisible(layer, size)
             THEN ExportPaintLayers(Tail(sortedLayers), size, c, paints)
             ELSE LET entered == CtxAlpha(CtxSave(c), layer.opacity)
                      r == IF layer.type = "user-image"
                           THEN ExportPaintUserImage(layer, size, entered, c)
                           ELSE ExportPaintFolder(layer, size, entered, c)
                  IN  ExportPaintLayers(Tail(sortedLayers), size, CtxRestore(r.ctx),
                                        paints \o r.paints)

\* preview: renderFolderLayer has no try/catch: what applyColorToImage raises leaves it
PreviewPaintFolder(layer, size, c, before) ==
    IF ColorThrows(layer)
    THEN [ctx |-> c, paints |-> <<>>, raised |-> TRUE]
    ELSE [ctx |-> c, raised |-> FALSE,
          paints |-> <<Paint(layer, size, c, before, FolderSource(layer, size),
                             FolderRect(size))>>]

\* preview: one try block of renderUserImage: load; globalAlpha = opacity / 100; draw;
\* globalAlpha = 1; drawn says whether the block returned normally
PreviewTryImage(layer, size, c, before, url) ==
    IF ~url.decodes THEN [ctx |-> c, paints |-> <<>>, drawn |-> FALSE]
    ELSE IF ColorThrows(layer)
    THEN [ctx |-> CtxAlpha(c, layer.opacity), paints |-> <<>>, drawn |-> FALSE]
    ELSE [ctx |-> CtxAlpha(c, DefaultAlpha), drawn |-> TRUE,
          paints |-> <<Paint(layer, size, CtxAlpha(c, layer.opacity), before, url,
                             DrawRect(size, currentPosition(layer, size),
                                      currentScale(layer, size)))>>]

\* preview: renderUserImage: the size-specific image, then the global image
PreviewPaintUserImage(layer, size, c, before) ==
    LET sizeUrl == IF HasKey(layer.sizeSpecificImages, size)
                   THEN layer.sizeSpecificImages[size] ELSE NoUrl
        first == IF sizeUrl # NoUrl THEN PreviewTryImage(layer, size, c, before, sizeUrl)
                 ELSE [ctx |-> c, paints |-> <<>>, drawn |-> FALSE]
    IN  IF first.drawn THEN [ctx |-> first.ctx, paints |-> first.paints, raised |-> FALSE]
        ELSE IF layer.imageUrl = NoUrl
        THEN [ctx |-> first.ctx, paints |-> <<>>, raised |-> FALSE]
        ELSE LET second == PreviewTryImage(layer, size, first.ctx, before, layer.imageUrl)
             IN  [ctx |-> second.ctx, paints |-> second.paints, raised |-> FALSE]

\* preview: the loop of CanvasRenderer.render: save, globalAlpha, switch, restore; what
\* a layer raises ends the render there
RECURSIVE PreviewPaintLayers(_, _, _, _)
PreviewPaintLayers(sortedLayers, size, c, paints) ==
    IF sortedLayers = <<>> THEN [ctx |-> c, paints |-> paints, status |-> "ok"]
    ELSE LET layer == Head(sortedLayers)
         IN  IF ~PreviewIsVisible(layer, size)
             THEN PreviewPaintLayers(Tail(sortedLayers), size, c, paints)
             ELSE LET entered == CtxAlpha(CtxSave(c), layer.opacity)
                      r == IF layer.type = "user-image"
                           THEN PreviewPaintUserImage(layer, size, entered, c)
                           ELSE PreviewPaintFolder(layer, size, entered, c)
                  IN  IF r.raised
                      THEN [ctx |-> r.ctx, paints |-> paints \o r.paints,
                            status |-> "rejected"]
                      ELSE PreviewPaintLayers(Tail(sortedLayers), size, CtxRestore(r.ctx),
                                              paints \o r.paints)

\* CanvasRenderer.render(layers, size) on the renderer p: lastLayers, lastSize, clearRect
\* and the loop
renderOn(p, ls, size) ==
    LET r == PreviewPaintLayers(sortCopy(ls).sorted, size,
                                [alpha |-> p.alpha, stack |-> p.stack], <<>>)
    IN  [renderer |-> [p EXCEPT !.alpha = r.ctx.alpha, !.stack = r.ctx.stack,
                                !.painted = r.paints, !.lastLayers = ls,
                                !.lastSize = size],
         paints |-> r.paints, status |-> r.status]

\* canvas.width = actualSize: the bitmap is cleared and the context is reset
ResizeCanvas(p) ==
    [p EXCEPT !.alpha = DefaultAlpha, !.stack = <<>>, !.painted = <<>>]

\* the use-colour Switch of a ColorPicker -> handleUseColorChange(layerId, useColor)
HandleUseColorChange ==
    /\ CanEdit
    /\ \E i \in 1..Len(layers) :
          /\ layers' = updateLayer(layers, layers[i].id, [useColor |-> ~layers[i].useColor])
          /\ op' = [name |-> "handleUseColorChange", args |-> <<i>>]
    /\ edits' = edits + 1
    /\ UNCHANGED <<autoResize, sizeViewMode, imagePosition, imageScale, outputVars,
                   codecVars, matchVars, bmpVars, asyncVars>>

\* a colour field of a ColorPicker -> handleColorChange(layerId, color)
HandleColorChange ==
    /\ CanEdit
    /\ \E i \in 1..Len(layers), color \in ColorInputs :
          /\ layers' = updateLayer(layers, layers[i].id, [color |-> color])
          /\ op' = [name |-> "handleColorChange", args |-> <<i>>]
    /\ edits' = edits + 1
    /\ UNCHANGED <<autoResize, sizeViewMode, imagePosition, imageScale, outputVars,
                   codecVars, matchVars, bmpVars, asyncVars>>

\* IconCanvas / SizePreview useEffect: canvas.width = actualSize; render(layers, size)
PreviewEffect ==
    /\ pc \in {"idle", "painted"}
    /\ pc' = "painted"
    /\ \E size \in CanonicalSizes :
        \E r \in {renderOn(ResizeCanvas(preview), layers, size)} :
          /\ preview' = r.renderer
          /\ canvas' = [renderer |-> "preview", size |-> size, draws |-> r.paints,
                        status |-> r.status]
          /\ op' = [name |-> "useEffect", args |-> <<size>>]
    /\ UNCHANGED <<layers, autoResize, sizeViewMode, imagePosition, imageScale, edits,
                   exported, imported, codecData, matchVars, bmpVars, calls, pending>>

\* loadFolderImages resolves: if (this.lastLayers && this.lastSize === 256)
\* this.render(this.lastLayers, this.lastSize)
FolderImagesLoaded ==
    /\ pc \in {"idle", "painted"}
    /\ preview.folderImages = "loading"
    /\ IF preview.lastLayers # <<>> /\ preview.lastSize = 256
       THEN \E r \in {renderOn(preview, preview.lastLayers, preview.lastSize)} :
              /\ preview' = [r.renderer EXCEPT !.folderImages = "loaded"]
              /\ canvas' = [renderer |-> "preview", size |-> preview.lastSize,
                            draws |-> r.paints, status |-> r.status]
       ELSE /\ preview' = [preview EXCEPT !.folderImages = "loaded"]
            /\ UNCHANGED canvas
    /\ op' = [name |-> "loadFolderImages", args |-> <<>>]
    /\ UNCHANGED <<pc, layers, autoResize, sizeViewMode, imagePosition, imageScale, edits,
                   exported, imported, codecData, matchVars, bmpVars, calls, pending>>

\* handleExport: renderLayersToCanvas on a canvas of its own for every size of ICON_SIZES
PaintExport ==
    /\ pc = "idle"
    /\ pc' = "exported"
    /\ exported' = [format |-> "ico", status |-> "ok", failed |-> 0,
                    frames |-> [k \in 1..Len(ICON_SIZES) |->
                                   ExportPaintLayers(sortCopy(layers).sorted, ICON_SIZES[k],
                                                     FreshContext, <<>>).paints],
                    files |-> ICON_SIZES]
    /\ op' = [name |-> "handleExport", args |-> <<>>]
    /\ UNCHANGED <<layers, autoResize, sizeViewMode, imagePosition, imageScale, edits,
                   canvas, imported, codecData, matchVars, bmpVars, asyncVars>>

InitPaint == CodecInit /\ MatchIdle /\ BmpIdle /\ EditorInit /\ OutputInit /\ AsyncInit

NextPaint ==
    \/ HandleOpacityChange
    \/ HandleUseColorChange
    \/ HandleColorChange
    \/ HandleImageUpload
    \/ HandlePositionChange
    \/ HandleScaleChange
    \/ PreviewEffect
    \/ FolderImagesLoaded
    \/ PaintExport

SpecPaint == InitPaint /\ [][NextPaint]_vars

(***************************************************************************)
(* Renders in flight.  render() is async and the effect neither awaits nor *)
(* cancels it: a call runs until it waits for an image to load and is      *)
(* resumed when that image has loaded, in any order with the other calls   *)
(* on the same renderer.  The awaits of renderFolderLayer resolve without  *)
(* a load and let no other call in.  The user image of this session is     *)
(* the global one, so renderUserImage waits for one load.                  *)
(***************************************************************************)
\* render calls in flight on one renderer
MaxCalls == 2

\* the size of the main preview canvas
RaceSize == 256

\* the loop of render from the layer at the head of rest, up to the next wait for the
\* user image or to the end
RECURSIVE RunLayers(_, _, _, _)
RunLayers(rest, size, c, paints) ==
    IF rest = <<>> THEN [ctx |-> c, paints |-> paints, rest |-> <<>>, stage |-> "done",
                         before |-> c]
    ELSE LET layer == Head(rest)
             entered == CtxAlpha(CtxSave(c), layer.opacity)
         IN  IF ~PreviewIsVisible(layer, size)
             THEN RunLayers(Tail(rest), size, c, paints)
             ELSE IF layer.type = "user-image"
             THEN IF layer.imageUrl = NoUrl /\ ~HasKey(layer.sizeSpecificImages, size)
                  THEN RunLayers(Tail(rest), size, CtxRestore(entered), paints)
                  ELSE [ctx |-> entered, paints |-> paints, rest |-> rest,
                        stage |-> "image", before |-> c]
             ELSE LET r == PreviewPaintFolder(layer, size, entered, c)
                  IN  IF r.raised
                      THEN [ctx |-> r.ctx, paints |-> paints, rest |-> <<>>,
                            stage |-> "done", before |-> c]
                      ELSE RunLayers(Tail(rest), size, CtxRestore(r.ctx),
                                     paints \o r.paints)

\* a call resumed after loadFolderImagesForSize: clearRect, sort, the loop
ResumeLoading(p, call) ==
    RunLayers(sortCopy(call.layers).sorted, call.size,
              [alpha |-> p.alpha, stack |-> p.stack], <<>>)

\* a call resumed after the load of the user image: the rest of renderUserImage,
\* ctx.restore(), the rest of the loop
ResumeImage(p, call) ==
    LET c == [alpha |-> p.alpha, stack |-> p.stack]
        r == PreviewPaintUserImage(Head(call.rest), call.size, c, call.before)
    IN  RunLayers(Tail(call.rest), call.size, CtxRestore(r.ctx), p.painted \o r.paints)

\* the calls without the k-th
WithoutCall(k) == [i \in 1..(Len(calls) - 1) |-> IF i < k THEN calls[i] ELSE calls[i + 1]]

\* a render call that has stored lastLayers and waits for loadFolderImagesForSize
NewCall(ls, size) ==
    [layers |-> ls, size |-> size, stage |-> "loading", rest |-> <<>>,
     before |-> [alpha |-> DefaultAlpha, stack |-> <<>>]]

\* the effect has run for the layers of the current render
EffectRan == preview.lastLayers = layers

\* IconCanvas useEffect, run when layers changed: canvas.width = actualSize; render(...)
StartRender ==
    /\ ~EffectRan
    /\ Len(calls) < MaxCalls
    /\ preview' = [ResizeCanvas(preview) EXCEPT !.lastLayers = layers, !.lastSize = RaceSize]
    /\ calls' = Append(calls, NewCall(layers, RaceSize))
    /\ op' = [name |-> "useEffect", args |-> <<RaceSize>>]
    /\ UNCHANGED <<pc, layers, autoResize, sizeViewMode, imagePosition, imageScale, edits,
                   outputVars, codecVars, matchVars, bmpVars, pending>>

\* loadFolderImages of the constructor resolves and starts a render of lastLayers
StartRerender ==
    /\ preview.folderImages = "loading"
    /\ preview.lastLayers # <<>>
    /\ Len(calls) < MaxCalls
    /\ preview' = [preview EXCEPT !.folderImages = "loaded"]
    /\ calls' = IF preview.lastSize = 256
                THEN Append(calls, NewCall(preview.lastLayers, preview.lastSize))
                ELSE calls
    /\ op' = [name |-> "loadFolderImages", args |-> <<>>]
    /\ UNCHANGED <<pc, layers, autoResize, sizeViewMode, imagePosition, imageScale, edits,
                   outputVars, codecVars, matchVars, bmpVars, pending>>

\* an image of a call has loaded: the call runs up to its next wait or to its end
ResumeRender ==
    /\ \E k \in 1..Len(calls) :
        \E r \in {IF calls[k].stage = "loading" THEN ResumeLoading(preview, calls[k])
                  ELSE ResumeImage(preview, calls[k])} :
          /\ preview' = [preview EXCEPT !.alpha = r.ctx.alpha, !.stack = r.ctx.stack,
                                        !.painted = r.paints]
          /\ calls' = IF r.stage = "done" THEN WithoutCall(k)
                      ELSE [calls EXCEPT ![k] = [@ EXCEPT !.stage = r.stage,
                                                          !.rest = r.rest,
                                                          !.before = r.before]]
          /\ op' = [name |-> "render resumed", args |-> <<k>>]
    /\ UNCHANGED <<pc, layers, autoResize, sizeViewMode, imagePosition, imageScale, edits,
                   outputVars, codecVars, matchVars, bmpVars, pending>>

\* the handlers of the session, each after the effect of the previous render
RaceImageUpload == EffectRan /\ HandleImageUpload

RaceToggleVisibility == EffectRan /\ ToggleVisibility

RaceOpacityChange == EffectRan /\ HandleOpacityChange

InitRace == CodecInit /\ MatchIdle /\ BmpIdle /\ EditorInit /\ OutputInit /\ AsyncInit

NextRace ==
    \/ StartRender
    \/ StartRerender
    \/ ResumeRender
    \/ RaceImageUpload
    \/ RaceToggleVisibility
    \/ RaceOpacityChange

SpecRace == InitRace /\ [][NextRace]_vars

(***************************************************************************)
(* Properties of the ICO reader and writer.                                *)
(***************************************************************************)
\* the size-to-PNG map the writer that produced icoBuffer was given
WrittenMap == IF writer = "client" THEN imageBuffers ELSE pngFiles

Exported == writer \in {"client", "server"}

\* C1: round trip.  Parsing what a writer emitted for a map from canonical sizes to
\* PNG buffers yields exactly one descriptor per size, in ascending size order, with
\* width = height = size, format PNG, and the payload that was written for that size.
Theorem_C1 ==
    (pc = "parsed" /\ Exported) =>
        /\ parsed.status = "ok"
        /\ Len(parsed.images) = Len(WrittenMap)
        /\ \A i \in 1..Len(parsed.images) :
              /\ parsed.images[i].width = parsed.images[i].height
              /\ parsed.images[i].format = "png"
              /\ \E k \in 1..Len(WrittenMap) :
                    /\ WrittenMap[k].size = parsed.images[i].width
                    /\ WrittenMap[k].data = parsed.images[i].buffer
        /\ \A i, j \in 1..Len(parsed.images) :
              i < j => parsed.images[i].width < parsed.images[j].width

\* a client export of all seven sizes was parsed back, the 256-pixel image included
Witness_C1 ==
    /\ pc = "parsed"
    /\ writer = "client"
    /\ Len(imageBuffers) = Len(ICON_SIZES)
    /\ parsed.status = "ok"
    /\ Len(parsed.images) = Len(ICON_SIZES)
    /\ parsed.images[Len(ICON_SIZES)].width = 256
    /\ Len(parsed.images[Len(ICON_SIZES)].buffer) > Len(PngSignature)

\* C2: every byte sequence a writer emits for a map it can be given is accepted by the
\* reader: the header, directory and bounds checks pass and no error is raised.
Theorem_C2 ==
    /\ Exported => parse(icoBuffer).status = "ok"
    /\ (Exported /\ pc = "parsed") => (parsed.status = "ok" /\ parsed.error = "")

\* the server route wrote an ICO of several sizes and the reader accepted it
Witness_C2 ==
    /\ pc = "parsed"
    /\ writer = "server"
    /\ response = "ico"
    /\ Len(pngFiles) >= 2
    /\ parsed.status = "ok"

\* C3: the reader throws, and returns no descriptor, exactly when the buffer is shorter
\* than 6 bytes, reserved is not 0, type is not 1, the count is 0 or above 255, one of
\* the count directory entries extends past the end of the buffer, or an entry's
\* imageOffset + imageSize exceeds the buffer length; otherwise it returns normally.
Theorem_C3 ==
    pc = "parsed" =>
        LET len == Len(icoBuffer)
            rejects ==
                \/ len < 6
                \/ readUInt16LE(icoBuffer, 0) # 0
                \/ readUInt16LE(icoBuffer, 2) # 1
                \/ readUInt16LE(icoBuffer, 4) = 0
                \/ readUInt16LE(icoBuffer, 4) > 255
                \/ \E i \in 0..(readUInt16LE(icoBuffer, 4) - 1) : 6 + 16 * i + 16 > len
                \/ \E i \in 0..(readUInt16LE(icoBuffer, 4) - 1) :
                      readUInt32LE(icoBuffer, 6 + 16 * i + 12)
                          + readUInt32LE(icoBuffer, 6 + 16 * i + 8) > len
        IN  /\ parsed.status \in {"ok", "error"}
            /\ parsed.status = "error" <=> rejects
            /\ parsed.status = "error" => (parsed.images = <<>> /\ parsed.error # "")

\* the second entry of an uploaded file is out of bounds after a first entry that is
\* in bounds: the reader throws and the first descriptor is not returned
Witness_C3 ==
    /\ pc = "parsed"
    /\ writer = "upload"
    /\ parsed.status = "error"
    /\ parsed.error = "Invalid ICO file: image data out of bounds"
    /\ parsed.images = <<>>
    /\ readUInt16LE(icoBuffer, 4) = 2
    /\ readUInt32LE(icoBuffer, 6 + 8) > 0
    /\ readUInt32LE(icoBuffer, 6 + 12) + readUInt32LE(icoBuffer, 6 + 8) <= Len(icoBuffer)

\* C4: a normal return holds exactly count descriptors in directory order; each width
\* and height is in 1..256 (byte 0 read as 256, any other byte as itself) and each
\* payload is the input bytes imageOffset .. imageOffset + imageSize, inside the buffer.
Theorem_C4 ==
    (pc = "parsed" /\ parsed.status = "ok") =>
        /\ Len(parsed.images) = readUInt16LE(icoBuffer, 4)
        /\ \A i \in 0..(Len(parsed.images) - 1) :
              LET e == 6 + 16 * i
                  size == readUInt32LE(icoBuffer, e + 8)
                  off == readUInt32LE(icoBuffer, e + 12)
                  d == parsed.images[i + 1]
              IN  /\ d.width \in 1..256
                  /\ d.height \in 1..256
                  /\ d.width = IF icoBuffer[e + 1] = 0 THEN 256 ELSE icoBuffer[e + 1]
                  /\ d.height = IF icoBuffer[e + 2] = 0 THEN 256 ELSE icoBuffer[e + 2]
                  /\ off + size <= Len(icoBuffer)
                  /\ d.buffer = [k \in 1..size |-> icoBuffer[off + k]]

\* an uploaded file with a 256x256 entry and a 16x200 entry, both with payload, parsed
Witness_C4 ==
    /\ pc = "parsed"
    /\ writer = "upload"
    /\ parsed.status = "ok"
    /\ Len(parsed.images) = 2
    /\ parsed.images[1].width = 256
    /\ parsed.images[1].buffer # <<>>
    /\ parsed.images[2].width = 16
    /\ parsed.images[2].height = 200
    /\ parsed.images[2].buffer # <<>>

\* C5 as stated: an image is classified PNG exactly when the first four bytes of its
\* payload are 89 50 4E 47; the four-byte check alone decides.
Claim_C5 ==
    (pc = "parsed" /\ parsed.status = "ok") =>
        \A i \in 1..Len(parsed.images) :
            LET b == parsed.images[i].buffer
            IN  parsed.images[i].format = "png"
                    <=> (Len(b) >= 4 /\ SubSeq(b, 1, 4) = <<137, 80, 78, 71>>)

\* C5 as amended: an image is classified PNG exactly when its payload is at least 8
\* bytes long and its first four bytes are 89 50 4E 47, and raw bitmap otherwise.
Theorem_C5 ==
    (pc = "parsed" /\ parsed.status = "ok") =>
        \A i \in 1..Len(parsed.images) :
            LET b == parsed.images[i].buffer
            IN  /\ parsed.images[i].format \in {"png", "bmp"}
                /\ parsed.images[i].format = "png"
                      <=> (Len(b) >= 8 /\ SubSeq(b, 1, 4) = <<137, 80, 78, 71>>)

\* a payload of 4..7 bytes that starts with the PNG magic was classified raw bitmap,
\* and a payload of 8 bytes whose bytes 5..8 are not the signature's was classified PNG
Witness_C5 ==
    /\ pc = "parsed"
    /\ parsed.status = "ok"
    /\ \E i \in 1..Len(parsed.images) :
          /\ Len(parsed.images[i].buffer) \in 4..7
          /\ SubSeq(parsed.images[i].buffer, 1, 4) = <<137, 80, 78, 71>>
          /\ parsed.images[i].format = "bmp"
    /\ \E i \in 1..Len(parsed.images) :
          /\ Len(parsed.images[i].buffer) = 8
          /\ parsed.images[i].buffer # PngSignature
          /\ parsed.images[i].format = "png"

(***************************************************************************)
(* Properties of best-match selection.                                     *)
(***************************************************************************)
\* C6: ClientIcoProcessor.getBestMatch returns an image with width = height = target
\* if one exists; otherwise, among the images with width >= target and height >=
\* target, one of smallest pixel area; otherwise an image of largest pixel area.  It
\* returns null only for an empty list.
Theorem_C6 ==
    clientMatch # -1 =>
        LET n == Len(images)
            exact == {i \in 1..n : images[i].width = targetSize
                                      /\ images[i].height = targetSize}
            larger == {i \in 1..n : images[i].width >= targetSize
                                       /\ images[i].height >= targetSize}
        IN  /\ clientMatch = 0 <=> n = 0
            /\ clientMatch # 0 =>
                  /\ clientMatch \in 1..n
                  /\ exact # {} => clientMatch \in exact
                  /\ (exact = {} /\ larger # {}) =>
                        /\ clientMatch \in larger
                        /\ \A j \in larger :
                              images[clientMatch].width * images[clientMatch].height
                                  <= images[j].width * images[j].height
                  /\ (exact = {} /\ larger = {}) =>
                        \A j \in 1..n :
                            images[clientMatch].width * images[clientMatch].height
                                >= images[j].width * images[j].height

\* no exact match; of several large-enough images of different areas the chosen one
\* is not the first, and an image too small in one dimension was passed over
Witness_C6 ==
    /\ clientMatch > 1
    /\ \A i \in 1..Len(images) :
          ~(images[i].width = targetSize /\ images[i].height = targetSize)
    /\ images[1].width >= targetSize
    /\ images[1].height >= targetSize
    /\ images[1].width * images[1].height
          > images[clientMatch].width * images[clientMatch].height
    /\ \E i \in 1..Len(images) :
          /\ images[i].width >= targetSize
          /\ images[i].height < targetSize

\* C7 as stated: IcoParser.getBestMatch and ClientIcoProcessor.getBestMatch select the
\* same image for every list of images, square or not, and every target size.
Claim_C7 == serverMatch # -1 => serverMatch = clientMatch

(***************************************************************************)
(* Properties of the raw-bitmap decode.                                    *)
(***************************************************************************)
\* C8: parseBmpToRgba fails when the buffer holds fewer than width*height*4 bytes after
\* the 40-byte header; otherwise the R,G,B,A bytes of output pixel (x, y), y = 0 the
\* top row, are the source bytes at +2,+1,+0,+3 of the 4-byte group at
\* 40 + ((height-1-y)*width + x)*4, and no byte outside the buffer is read.
Theorem_C8 ==
    bmpResult.status # "none" =>
        /\ bmpResult.status \in {"ok", "error"}
        /\ bmpResult.status = "error"
              <=> Len(bmpBuffer) - 40 < bmpWidth * bmpHeight * 4
        /\ bmpResult.status = "ok" =>
              /\ Len(bmpResult.rgba) = bmpWidth * bmpHeight * 4
              /\ \A x \in 0..(bmpWidth - 1), y \in 0..(bmpHeight - 1) :
                    LET g == 40 + ((bmpHeight - 1 - y) * bmpWidth + x) * 4
                        t == (y * bmpWidth + x) * 4
                    IN  /\ bmpResult.rgba[t + 1] = bmpBuffer[g + 2 + 1]
                        /\ bmpResult.rgba[t + 2] = bmpBuffer[g + 1 + 1]
                        /\ bmpResult.rgba[t + 3] = bmpBuffer[g + 0 + 1]
                        /\ bmpResult.rgba[t + 4] = bmpBuffer[g + 3 + 1]
              /\ \A r \in bmpResult.reads : r >= 0 /\ r < Len(bmpBuffer)

\* a bitmap of two rows and two columns was decoded from a buffer of exactly the
\* required length, so its last byte was read
Witness_C8 ==
    /\ bmpResult.status = "ok"
    /\ bmpWidth = 2
    /\ bmpHeight = 2
    /\ Len(bmpBuffer) = 40 + 16
    /\ Len(bmpBuffer) - 1 \in bmpResult.reads
    /\ bmpResult.rgba[1] # bmpResult.rgba[9]

(***************************************************************************)
(* Properties of the ICO writer.                                           *)
(***************************************************************************)
\* position in a map of the entry with exactly i smaller sizes
IthSmallest(m, i) ==
    CHOOSE k \in 1..Len(m) : Cardinality({j \in 1..Len(m) : m[j].size < m[k].size}) = i

\* C9: for N sizes the writer emits 6 + 16*N bytes of header and directory, then the
\* payloads: the entry of the i-th smallest size carries that payload's length and the
\* offset 6 + 16*N + the lengths of the payloads of smaller sizes, so the payload
\* regions are contiguous, disjoint, hold the PNG bytes verbatim, and end the buffer.
Theorem_C9 ==
    (Exported /\ response = "ico") =>
        LET m == WrittenMap
            N == Len(m)
            sizeAt(i) == readUInt32LE(icoBuffer, 6 + 16 * i + 8)
            offAt(i) == readUInt32LE(icoBuffer, 6 + 16 * i + 12)
        IN  /\ N >= 1
            /\ readUInt16LE(icoBuffer, 4) = N
            /\ Len(icoBuffer) >= 6 + 16 * N
            /\ offAt(0) = 6 + 16 * N
            /\ \A i \in 0..(N - 1) :
                  /\ sizeAt(i) = Len(m[IthSmallest(m, i)].data)
                  /\ i > 0 => offAt(i) = offAt(i - 1) + sizeAt(i - 1)
                  /\ offAt(i) + sizeAt(i) <= Len(icoBuffer)
                  /\ [k \in 1..sizeAt(i) |-> icoBuffer[offAt(i) + k]]
                        = m[IthSmallest(m, i)].data
            /\ Len(icoBuffer) = offAt(N - 1) + sizeAt(N - 1)

\* the server wrote two PNG files of different lengths, pushed larger size first
Witness_C9 ==
    /\ writer = "server"
    /\ response = "ico"
    /\ Len(pngFiles) = 2
    /\ pngFiles[1].size > pngFiles[2].size
    /\ Len(pngFiles[1].data) # Len(pngFiles[2].data)
    /\ readUInt32LE(icoBuffer, 6 + 16 + 12) = 6 + 32 + Len(pngFiles[2].data)

\* a map's entries in another key order: every order of a map of at most MaxImages
\* entries; for the seven-entry map of an export, its reversal and each exchange of two
\* neighbours
Reorderings(m) ==
    IF Len(m) <= MaxImages
    THEN {[k \in 1..Len(m) |-> m[f[k]]] : f \in Permutations(1..Len(m))}
    ELSE {[k \in 1..Len(m) |-> m[Len(m) + 1 - k]]}
            \cup {[k \in 1..Len(m) |-> IF k = a THEN m[a + 1]
                                       ELSE IF k = a + 1 THEN m[a] ELSE m[k]] :
                     a \in 1..(Len(m) - 1)}

\* C10: the writer's output does not depend on the order in which the per-size buffers
\* were inserted: every reordering of the same map gives the same bytes, and the
\* directory entries are in strictly ascending size order.
Theorem_C10 ==
    (Exported /\ response = "ico") =>
        /\ \A m \in Reorderings(WrittenMap) :
              icoBuffer = IF writer = "client" THEN createIcoFromPngs(m) ELSE processIcons(m)
        /\ \A i, j \in 0..(readUInt16LE(icoBuffer, 4) - 1) :
              i < j =>
                  (IF icoBuffer[6 + 16 * i + 1] = 0 THEN 256 ELSE icoBuffer[6 + 16 * i + 1])
                      < (IF icoBuffer[6 + 16 * j + 1] = 0 THEN 256
                         ELSE icoBuffer[6 + 16 * j + 1])

\* the client writer was given a map whose keys were inserted largest first, 256 among
\* them, and wrote the directory smallest first
Witness_C10 ==
    /\ writer = "client"
    /\ response = "ico"
    /\ Len(imageBuffers) = 2
    /\ imageBuffers[1].size = 256
    /\ imageBuffers[2].size < 256
    /\ icoBuffer[6 + 1] = imageBuffers[2].size
    /\ icoBuffer[6 + 16 + 1] = 0

(***************************************************************************)
(* Properties of rendering and export.                                     *)
(***************************************************************************)
\* every frame rendered by the last operation: the preview canvas, or the frame of each
\* size an export rendered
RenderedFrames ==
    (IF canvas.renderer = "preview"
     THEN {[renderer |-> "preview", size |-> canvas.size, draws |-> canvas.draws]}
     ELSE {})
        \cup {[renderer |-> "export", size |-> ICON_SIZES[k], draws |-> exported.frames[k]] :
                 k \in 1..Len(exported.frames)}

\* visibilityBySize[s] when that override exists, the global visible flag otherwise
EffectiveVisibility(layer, s) ==
    IF s \in DOMAIN layer.visibilityBySize THEN layer.visibilityBySize[s] ELSE layer.visible

\* the per-size image of size s if present, else the global image
ResolvedSource(layer, s) ==
    IF s \in DOMAIN layer.sizeSpecificImages THEN layer.sizeSpecificImages[s]
    ELSE layer.imageUrl

\* the layer has something to paint at size s: a folder layer, or a user-image layer
\* whose resolved image decodes
HasPaint(layer, s) ==
    layer.type # "user-image"
        \/ (ResolvedSource(layer, s) # NoUrl /\ ResolvedSource(layer, s).decodes)

IsPainted(layer, frame) == \E j \in 1..Len(frame.draws) : frame.draws[j].layer = layer.id

\* C11: a successful ICO export of the default three-layer stack, and of any layer
\* stack, begins with the bytes 00 00 01 00 07 00, and its seven directory entries have
\* the width and height bytes 16, 20, 24, 32, 40, 64, 0 in that order.
Theorem_C11 ==
    (exported.format = "ico" /\ exported.status = "ok") =>
        /\ SubSeq(icoBuffer, 1, 6) = <<0, 0, 1, 0, 7, 0>>
        /\ \A k \in 1..7 :
              /\ icoBuffer[6 + 16 * (k - 1) + 1] = <<16, 20, 24, 32, 40, 64, 0>>[k]
              /\ icoBuffer[6 + 16 * (k - 1) + 2] = <<16, 20, 24, 32, 40, 64, 0>>[k]

\* the default three-layer stack was exported to ICO: both folders in every frame
Witness_C11 ==
    /\ exported.format = "ico"
    /\ exported.status = "ok"
    /\ layers = createDefaultLayers
    /\ Len(icoBuffer) > 6 + 16 * 7
    /\ \A k \in 1..7 : Len(exported.frames[k]) = 2

\* C12 as stated: in every render at a canonical size s, by the preview renderer and by
\* the export renderer alike, a layer that has something to paint is painted if and
\* only if its effective visibility at s is true.
Claim_C12 ==
    \A f \in RenderedFrames :
        \A i \in 1..Len(layers) :
            HasPaint(layers[i], f.size) =>
                (IsPainted(layers[i], f) <=> EffectiveVisibility(layers[i], f.size))

\* C13: the position used to draw a user image at size s is positionBySize[s] when that
\* override exists and the global position otherwise, and the scale used is
\* scaleBySize[s] when that override exists and the global scale otherwise.
Theorem_C13 ==
    \A f \in RenderedFrames :
        \A j \in 1..Len(f.draws) :
            f.draws[j].layer = "user-image" =>
                LET layer == FindLayer(layers, "user-image")
                IN  /\ f.draws[j].position =
                          IF f.size \in DOMAIN layer.positionBySize
                          THEN layer.positionBySize[f.size] ELSE layer.position
                    /\ f.draws[j].scale =
                          IF f.size \in DOMAIN layer.scaleBySize
                          THEN layer.scaleBySize[f.size] ELSE layer.scale

\* an export drew the user image at 32 with the position override of 32, which differs
\* from the global position used at 16
Witness_C13 ==
    /\ exported.status = "ok"
    /\ 32 \in DOMAIN FindLayer(layers, "user-image").positionBySize
    /\ \E a \in 1..Len(exported.frames[1]), b \in 1..Len(exported.frames[4]) :
          /\ exported.frames[1][a].layer = "user-image"
          /\ exported.frames[4][b].layer = "user-image"
          /\ exported.frames[1][a].position = FindLayer(layers, "user-image").position
          /\ exported.frames[4][b].position # exported.frames[1][a].position

\* C14 as stated: when the image source resolved for the user-image layer at size s is
\* missing or fails to decode, the layer contributes nothing to the frame of size s, and
\* every other visible layer is still painted.
Claim_C14 ==
    \A f \in RenderedFrames :
        LET layer == FindLayer(layers, "user-image")
            source == ResolvedSource(layer, f.size)
        IN  (source = NoUrl \/ ~source.decodes) =>
                /\ ~IsPainted(layer, f)
                /\ \A i \in 1..Len(layers) :
                      (layers[i].type # "user-image"
                          /\ (IF f.renderer = "preview"
                              THEN EffectiveVisibility(layers[i], f.size)
                              ELSE layers[i].visible))
                          => IsPainted(layers[i], f)

\* C15: in every render, whatever the order of the layers in the array, the layers are
\* painted in non-decreasing order value, the layer of highest order last.
Theorem_C15 ==
    \A f \in RenderedFrames :
        \A a, b \in 1..Len(f.draws) :
            a < b => f.draws[a].order <= f.draws[b].order

\* a preview painted all three layers, the first layer of the array last
Witness_C15 ==
    /\ canvas.renderer = "preview"
    /\ Len(canvas.draws) = 3
    /\ canvas.draws[3].layer = layers[1].id
    /\ layers[1].order > layers[2].order
    /\ layers[1].order > layers[3].order

\* C16: a preview render, an ICO export and a PNG-ZIP export, successful or not, leave
\* the layers array as it was: same element order, same attribute values.
Theorem_C16 ==
    [][(pc = "idle" /\ pc' \in {"rendered", "exported"}) => layers' = layers]_vars

\* an export failed on a layer stack whose array order is not its paint order
Witness_C16 ==
    /\ pc = "exported"
    /\ exported.status = "rejected"
    /\ layers[1].order > layers[2].order
    /\ FindLayer(layers, "user-image").sizeSpecificImages # NoMap

\* C17 as stated: if PNG encoding fails for one canonical size during an ICO or PNG-ZIP
\* export, the export still completes and its output contains every other canonical
\* size; only the failed size is missing.
Claim_C17 ==
    (exported.status # "none" /\ exported.failed # 0) =>
        /\ exported.status = "ok"
        /\ {exported.files[k] : k \in 1..Len(exported.files)}
              = CanonicalSizes \ {exported.failed}

(***************************************************************************)
(* Properties of the editor operations.                                    *)
(***************************************************************************)
\* C20: a reorder exchanges the order values of the dragged layer and the target layer
\* and changes nothing else: the third layer, every other attribute of the two layers
\* and the position of each layer in the array are as before.
Theorem_C20 ==
    [][(edits' = edits + 1 /\ op'.name = "reorderLayers") =>
          \E d, t \in 1..Len(layers) :
              /\ d # t
              /\ Cardinality({i \in 1..Len(layers) : layers[i].order > layers[d].order})
                    = op'.args[1]
              /\ Cardinality({i \in 1..Len(layers) : layers[i].order > layers[t].order})
                    = op'.args[2]
              /\ Len(layers') = Len(layers)
              /\ layers'[d].order = layers[t].order
              /\ layers'[t].order = layers[d].order
              /\ layers'[d] = [layers[d] EXCEPT !.order = layers[t].order]
              /\ layers'[t] = [layers[t] EXCEPT !.order = layers[d].order]
              /\ \A i \in 1..Len(layers) : i \notin {d, t} => layers'[i] = layers[i]
      ]_vars

\* the top layer was dragged onto the bottom one: the user image now has order 0, the
\* back folder order 2, the front folder keeps order 1, and the array order is as created
Witness_C20 ==
    /\ op.name = "reorderLayers"
    /\ layers[1].id = "back-folder" /\ layers[1].order = 2
    /\ layers[2].id = "front-folder" /\ layers[2].order = 1
    /\ layers[3].id = "user-image" /\ layers[3].order = 0
    /\ layers[3].imageUrl # NoUrl

(***************************************************************************)
(* Properties of the ICO import.                                           *)
(***************************************************************************)
\* the target sizes an import has an image for
ImportedSizes == {imported.sizeImages[k].size : k \in 1..Len(imported.sizeImages)}

\* the image an import has for a target size
ImportedUrl(t) ==
    imported.sizeImages[CHOOSE k \in 1..Len(imported.sizeImages) :
                            imported.sizeImages[k].size = t].url

\* C18: when the ICO reader rejects the uploaded file, the import in the browser fails as
\* a whole: no per-size image is delivered, onIcoUpload is not called, and the layers and
\* autoResize are what they were before the upload.
Theorem_C18 ==
    [][(/\ pc = "idle"
        /\ pc' = "imported"
        /\ imported'.importer \in {"first", "second"}
        /\ parse(imported'.file.bytes).status = "error")
       => /\ imported'.status = "error"
          /\ imported'.sizeImages = <<>>
          /\ ~imported'.callback
          /\ layers' = layers
          /\ autoResize' = autoResize
      ]_vars

\* a file whose first directory entry is in bounds and whose second is not was uploaded
\* after the user image had been moved: the import failed, nothing was delivered
Witness_C18 ==
    /\ pc = "imported"
    /\ imported.importer \in {"first", "second"}
    /\ imported.status = "error"
    /\ Len(imported.file.bytes) = FuzzDirEnd + Len(FuzzPayload)
    /\ readUInt16LE(imported.file.bytes, 4) = FuzzEntries
    /\ parse(SubSeq(imported.file.bytes, 1, IcoHeaderBytes - 2) \o <<1, 0>>
             \o SubSeq(imported.file.bytes, IcoHeaderBytes + 1,
                       Len(imported.file.bytes))).status = "ok"
    /\ ~imported.callback
    /\ autoResize
    /\ FindLayer(layers, "user-image").position # [x |-> 128, y |-> 128]

\* C19: once the container has been read, an import always completes; its result has at
\* most one image for each of the seven target sizes and for no other size; a target
\* size whose conversion failed is absent or holds the fallback image, and every other
\* target size holds its converted image.
Theorem_C19 ==
    (/\ pc = "imported"
     /\ parse(imported.file.bytes).status = "ok"
     /\ imported.importer = "second" => validateIcoFile(imported.file))
    => /\ imported.status = "ok"
       /\ ImportedSizes \subseteq CanonicalSizes
       /\ Cardinality(ImportedSizes) = Len(imported.sizeImages)
       /\ \A t \in CanonicalSizes :
            IF t \in imported.failed
            THEN t \in ImportedSizes => ImportedUrl(t).kind = "fallback"
            ELSE t \in ImportedSizes /\ ImportedUrl(t).kind = "ico"

\* the conversion failed for some target sizes and not for others, and the import holds
\* the converted images of the others
Witness_C19 ==
    /\ pc = "imported"
    /\ imported.status = "ok"
    /\ imported.failed # {}
    /\ imported.failed # CanonicalSizes
    /\ \E t \in ImportedSizes : ImportedUrl(t).kind = "ico"
    /\ \E t \in imported.failed : t \notin ImportedSizes \/ ImportedUrl(t).kind = "fallback"

\* C26: every file the upload handler routes to the ICO import (name ending in .ico, or
\* MIME type application/octet-stream) whose bytes are a well-formed ICO container is
\* imported: parseIcoFile does not reject it and onIcoUpload is called with the images.
Claim_C26 ==
    (/\ pc = "imported"
     /\ imported.importer \in {"first", "second"}
     /\ isIcoFile(imported.file)
     /\ parse(imported.file.bytes).status = "ok")
    => /\ imported.status = "ok"
       /\ imported.callback

Theorem_C22 ==
    /\ Len(layers) = Len(createDefaultLayers)
    /\ \A i \in 1..Len(layers) :
          /\ layers[i].id = createDefaultLayers[i].id
          /\ layers[i].type = createDefaultLayers[i].type
          /\ layers[i].type # "user-image" =>
                /\ layers[i].imageUrl = NoUrl
                /\ layers[i].sizeSpecificImages = NoMap
    /\ {layers[i].type : i \in 1..Len(layers)} = {"back-folder", "front-folder", "user-image"}

\* an ICO file was imported after other edits: the user image carries per-size images
\* and the folder layers were written by the import
Witness_C22 ==
    /\ op.name = "handleIcoUpload"
    /\ edits >= 3
    /\ FindLayer(layers, "user-image").sizeSpecificImages # NoMap
    /\ FindLayer(layers, "back-folder").order # 0
    /\ ~autoResize

\* C23: a scale request outside 10..200 percent or a position request outside 0..256
\* leaves the layers exactly as they were, and no layer ever holds an opacity outside
\* 0..100 or a global or per-size scale outside 10..200 percent.
Claim_C23 ==
    /\ [][(/\ edits' = edits + 1
           /\ \/ op'.name = "handleScaleChange" /\ op'.args[1] \notin 10..200
              \/ op'.name = "handleGranularPositionChange" /\ op'.args[2] \notin 0..256)
          => layers' = layers]_vars
    /\ [](\A i \in 1..Len(layers) :
              /\ layers[i].opacity \in 0..100
              /\ layers[i].scale \in 10..200
              /\ \A s \in DOMAIN layers[i].scaleBySize : layers[i].scaleBySize[s] \in 10..200)

\* C29: an operation that sets the global visibility of a layer sets its effective
\* visibility in the preview at every canonical size: after the global toggle the
\* effective visibility of the layer is its new visible flag at all seven sizes, and
\* after an ICO import every layer is effectively visible at all seven sizes.
Claim_C29 ==
    [][(edits' = edits + 1) =>
          /\ (op'.name = "toggleVisibility" /\ sizeViewMode = GlobalMode) =>
                \A s \in CanonicalSizes :
                    PreviewIsVisible(layers'[op'.args[1]], s) = layers'[op'.args[1]].visible
          /\ op'.name = "handleIcoUpload" =>
                \A i \in 1..Len(layers'), s \in CanonicalSizes :
                    PreviewIsVisible(layers'[i], s)
      ]_vars

\* C30: in per-size mode for size s, changing one coordinate with the X or Y control
\* leaves the other coordinate of the effective position at s as it was and leaves the
\* effective position at every other canonical size as it was.
Claim_C30 ==
    [][(/\ edits' = edits + 1
        /\ op'.name = "handleGranularPositionChange"
        /\ sizeViewMode # GlobalMode)
       => LET before == FindLayer(layers, "user-image")
              after == FindLayer(layers', "user-image")
          IN  /\ op'.args[1] = "x" =>
                    currentPosition(after, sizeViewMode).y
                        = currentPosition(before, sizeViewMode).y
              /\ op'.args[1] = "y" =>
                    currentPosition(after, sizeViewMode).x
                        = currentPosition(before, sizeViewMode).x
              /\ \A t \in CanonicalSizes \ {sizeViewMode} :
                    currentPosition(after, t) = currentPosition(before, t)
      ]_vars

\* C28: in every reachable state, if auto-resize is on the user-image layer has no
\* per-size images, whatever the interleaving of the handlers with file reads in flight.
Claim_C28 ==
    autoResize => FindLayer(layers, "user-image").sizeSpecificImages = NoMap

(***************************************************************************)
(* Properties of painting.                                                 *)
(***************************************************************************)
\* every paint of the last preview render and of the last export
PaintsOnCanvas ==
    {canvas.draws[i] : i \in 1..Len(canvas.draws)}

PaintsOfExport ==
    UNION {{exported.frames[k][i] : i \in 1..Len(exported.frames[k])} :
           k \in 1..Len(exported.frames)}

\* C24: every layer is composited with an alpha equal to its own opacity / 100, and
\* every layer that is painted, also one that follows a layer whose rendering raised
\* an error, finds the compositing state at its default (alpha 1, nothing saved).
Claim_C24 ==
    \A p \in PaintsOnCanvas \cup PaintsOfExport :
        /\ p.alpha = p.opacity
        /\ p.before = [alpha |-> DefaultAlpha, depth |-> 0]

Shown(paints) ==
    [i \in 1..Len(paints) |->
        [layer |-> paints[i].layer, alpha |-> paints[i].alpha, source |-> paints[i].source,
         x |-> paints[i].x, y |-> paints[i].y, side |-> paints[i].side]]

\* C27: render calls that overlap on one renderer do not interfere: once no call is in
\* flight the canvas shows exactly what the most recent call alone would draw.
Claim_C27 ==
    (calls = <<>> /\ preview.lastLayers # <<>>) =>
        Shown(preview.painted) =
            Shown(PreviewPaintLayers(sortCopy(preview.lastLayers).sorted, preview.lastSize,
                                     FreshContext, <<>>).paints)

====
